---- MODULE Spec2Model ----
(***************************************************************************)
(* A model of the DOM grounding and action-orchestration engine:           *)
(*   - the model-call pipeline (act, extract, verifyActCompletion),         *)
(*   - the accessibility-tree capture (getAccessibilityTree),               *)
(*   - the agent handler (execute, the action handler, executeAction,       *)
(*     recordAction, saveRecordedActions),                                  *)
(*   - the method dispatch (performPlaywrightMethod).                       *)
(* Each component has its own specification over the shared variables; a    *)
(* specification leaves the variables of the other components unchanged.    *)
(*                                                                          *)
(* JavaScript values are written as strings: "undefined", "null", "true",   *)
(* "false", and quoted text for a JS string ("'yes'").                      *)
(***************************************************************************)
EXTENDS Integers, Sequences, FiniteSets, TLC

VARIABLES
  \* ---- act ----
  actPc,          \* "idle" | "calling" | "returned" | "threw"
  actRetries0,    \* the retries argument of the outermost call
  actRetries,     \* the retries argument of the call in progress
  actResponses,   \* the model responses received so far, in order
  actMetrics,     \* number of onActMetrics invocations
  actUsed,        \* history: the tokens of the usage of every response received
  actReported,    \* the tokens passed to onActMetrics, summed
  actResult,      \* "pending" | "null" | the parsed arguments | "SyntaxError"
  actLogToFile,   \* the logInferenceToFile argument
  actWriteFailed, \* a write of the inference log failed during this call
  \* ---- verifyActCompletion ----
  vPc,            \* "idle" | "calling" | "returned" | "threw"
  vResponse,      \* the model response of the call
  vResult,        \* the returned record
  vLogToFile,     \* the logInferenceToFile argument
  vFiles,         \* files written by writeTimestampedTxtFile / appendSummary
  \* ---- extract ----
  xPc,            \* "idle" | "extract" | "refine" | "metadata" | "returned" | "threw"
  xStages,        \* per completed stage: [name, data, usage, ms]
  xResult,        \* "pending" | the returned record
  xLogToFile,     \* the logInferenceToFile argument
  xWriteFailed,   \* a write of the inference log failed during this call
  xRequests,      \* the requests passed to createChatCompletion so far, in order
  \* ---- observe ----
  oPc,            \* "idle" | "calling" | "returned" | "threw"
  oReturnAction,  \* the returnAction argument
  oLogToFile,     \* the logInferenceToFile argument
  oFiles,         \* files written by writeTimestampedTxtFile / appendSummary
  oResponse,      \* the model response of the call
  oResult,        \* the returned record
  oError,         \* "" | "TypeError" | "ClientError": what observe threw
  \* ---- buildHierarchicalTree ----
  tPc,            \* "idle" | "link" | "roots" | "clean" | "format" | "returned"
  tNodes,         \* the flat node list passed in
  tNodeMap,       \* the nodeIds that are keys of nodeMap
  tChildren,      \* per key of nodeMap, the nodeIds pushed to its children
  tRoots,         \* the root nodes with their subtrees, before cleaning
  tTree,          \* finalTree
  tSimplified,    \* simplifiedFormat, as the sequence of its lines
  \* ---- getAccessibilityTree ----
  axPc,           \* position inside getAccessibilityTree
  axEnabled,      \* the Accessibility domain of the debugging protocol is enabled
  axEnableOk,     \* this call's enableCDP succeeded
  axDisableCalls, \* disableCDP invocations of this call
  axDisableOk,    \* every disableCDP invocation of this call succeeded
  axScrollable,   \* backendNodeIds found by findScrollableElementIds
  axNodes,        \* the nodes returned by Accessibility.getFullAXTree
  axI,            \* index of the node being enriched (1-based)
  axFailedAt,     \* "none" | the step that threw inside the try block
  \* ---- the page and its browser context ----
  pageUrl,        \* page.url() of the original page
  openTabs,       \* number of extra tabs open in the context
  popup,          \* "none" | "pending": a tab the browser is about to open
  raceListener,   \* context.once("page", ...) of the current race is registered
  raceTimer,      \* "off" | "armed" | "fired": the 1.5 s timer of the current race
  raceOutcome,    \* "none" | "page" | "null": what the race promise resolved to
  raceTab,        \* url() of the page the race resolved to ("none" without one)
  tabsClosed,     \* tabs closed by the current step
  navs,           \* URLs the current step navigated the original page to (goto)
  \* ---- StagehandAgentHandler ----
  hPc,            \* "idle" | "agent" | "handler" | "save": position inside execute()
  hOutcome,       \* "none" | "returned" | "threw": how the last execute() ended
  hHandled,       \* how the last call of the action handler settled, and the result of its executeAction
  sessionId,      \* counter standing for `session_${Date.now()}`
  recordedActions,\* this.recordedActions
  files,          \* repeatables/<sessionId>_complete.json, by session id
  nActions,       \* actions the agent has asked the action handler to execute
  pushed,         \* history: entries recorded during each session, by session id
  clientUrl,      \* the URL last passed to agentClient.setCurrentUrl
  \* ---- executeAction ----
  ePc,            \* position inside executeAction
  eAction,        \* the action being executed
  eResult,        \* result.success
  eError,         \* result.error ("" when absent)
  eRecordCalls,   \* recordAction invocations of this executeAction call
  eDispatched,    \* the switch on action.type was entered
  eShotFailed,    \* "none" | "before" | "after": the screenshot that threw
  eSynced,        \* history: the cached URL was the page URL when executeAction was called
  \* ---- performPlaywrightMethod ----
  mPc,            \* position inside performPlaywrightMethod
  mMethod,        \* the method argument
  mError,         \* the exception performPlaywrightMethod threw ("" when none)
  mMessage,       \* the message of that exception
  mFailure,       \* the message of the error the browser command rejected with ("" when none)
  netIdleTimer,   \* "off" | "armed" | "fired": the 5 s timer of the network-idle race
  \* ---- generateSelector, getActiveElementSelector ----
  sPc,            \* "idle" | "returned" | "failed"
  sDoc,           \* the elements of the document below document.body, in document order
  sFn,            \* "none" | "generate" | "active": the function called
  sTarget,        \* the element at the point / the active element (0 is document.body, -1 is none)
  sDeadline,      \* the strategy on whose entry the time budget is used up
  sResult,        \* the value returned
  \* ---- the keyboard, mouse and cursor calls of executeAction ----
  dPc,            \* "idle" | "running" | "returned"
  dAction,        \* the action: [type, keys, path]
  dPlatform,      \* process.platform
  dEvents,        \* the awaited calls that have resolved, in order
  dResult,        \* "pending" | "success" | "failure": result.success
  dCursor,        \* "none" | "injected" | "failed": injectCursor before the action
  fPc,            \* fillInVariables: "idle" | "running" | "returned"
  fText,          \* text, a sequence of words and placeholders
  fVariables,     \* Object.entries(variables)
  fI,             \* entries the forEach has processed
  fProcessed,     \* processedText
  \* ---- the same call made again with logInferenceToFile flipped ----
  replay          \* the first call: [op, inputs, result]; op is "none" before

actVars == <<actPc, actRetries0, actRetries, actResponses, actMetrics, actUsed, actReported,
             actResult,
             actLogToFile, actWriteFailed>>
verifyVars == <<vPc, vResponse, vResult, vLogToFile, vFiles>>
extractVars == <<xPc, xStages, xResult, xLogToFile, xWriteFailed, xRequests>>
treeVars == <<tPc, tNodes, tNodeMap, tChildren, tRoots, tTree, tSimplified>>
observeVars == <<oPc, oReturnAction, oLogToFile, oFiles, oResponse, oResult, oError>>
axVars == <<axPc, axEnabled, axEnableOk, axDisableCalls, axDisableOk, axScrollable, axNodes,
            axI, axFailedAt>>

pageVars == <<pageUrl, openTabs, popup, raceListener, raceTimer, raceOutcome, raceTab,
              tabsClosed, navs>>
sessionVars == <<hPc, hOutcome, hHandled, sessionId, recordedActions, files, nActions, pushed,
                 clientUrl>>
execVars == <<ePc, eAction, eResult, eError, eRecordCalls, eDispatched, eShotFailed, eSynced>>
methodVars == <<mPc, mMethod, mError, mMessage, mFailure, netIdleTimer>>
handlerVars == <<pageVars, sessionVars, execVars, methodVars>>
selectorVars == <<sPc, sDoc, sFn, sTarget, sDeadline, sResult>>
replayVars == <<replay>>
deviceVars == <<dPc, dAction, dPlatform, dEvents, dResult, dCursor>>
fillVars == <<fPc, fText, fVariables, fI, fProcessed>>

vars == <<actVars, verifyVars, extractVars, observeVars, treeVars, axVars, handlerVars,
          selectorVars, replayVars, deviceVars, fillVars>>

\* the variables of the other components
notAct == <<verifyVars, extractVars, observeVars, treeVars, axVars, handlerVars, selectorVars,
  replayVars, deviceVars, fillVars>>
notVerify == <<actVars, extractVars, observeVars, treeVars, axVars, handlerVars, selectorVars,
  replayVars, deviceVars, fillVars>>
notExtract == <<actVars, verifyVars, observeVars, treeVars, axVars, handlerVars, selectorVars,
  replayVars, deviceVars, fillVars>>
notObserve == <<actVars, verifyVars, extractVars, treeVars, axVars, handlerVars, selectorVars,
  replayVars, deviceVars, fillVars>>
notTree == <<actVars, verifyVars, extractVars, observeVars, axVars, handlerVars, selectorVars,
  replayVars, deviceVars, fillVars>>
notAx == <<actVars, verifyVars, extractVars, observeVars, treeVars, handlerVars, selectorVars,
  replayVars, deviceVars, fillVars>>
notHandler == <<actVars, verifyVars, extractVars, observeVars, treeVars, axVars, selectorVars,
  replayVars, deviceVars, fillVars>>
notDevice == <<actVars, verifyVars, extractVars, observeVars, treeVars, axVars, handlerVars,
  selectorVars, replayVars, fillVars>>
notFill == <<actVars, verifyVars, extractVars, observeVars, treeVars, axVars, handlerVars,
  selectorVars, replayVars, deviceVars>>
notSelector == <<actVars, verifyVars, extractVars, observeVars, treeVars, axVars, handlerVars,
  replayVars, deviceVars, fillVars>>

(***************************************************************************)
(* Bounds of the model.                                                    *)
(***************************************************************************)
MaxToolCalls == 2
MaxInitRetries == 3
MaxTokens == 1
MaxMs == 1
MaxNodes == 2
MaxSessions == 2
MaxActions == 2
MaxCalls == 2
MaxElements == 1
MaxTreeNodes == 3
MaxDomElements == 2
MaxDepth == 16
MaxKeys == 2
MaxPath == 3
MaxText == 3
MaxVars == 2

(***************************************************************************)
(* Model-client responses.                                                 *)
(***************************************************************************)
\* usage?: LLMUsage -- absent (defined = FALSE) or the token counts
NoUsage == [defined |-> FALSE, prompt_tokens |-> 0, completion_tokens |-> 0]

Usages ==
  {NoUsage} \cup
  [defined : {TRUE}, prompt_tokens : 0..MaxTokens, completion_tokens : 0..MaxTokens]

\* usage?.prompt_tokens ?? 0
PromptTokensOf(usage) ==
  IF usage.defined THEN usage.prompt_tokens ELSE 0

\* usage?.completion_tokens ?? 0
CompletionTokensOf(usage) ==
  IF usage.defined THEN usage.completion_tokens ELSE 0

\* Date.now() differences of one awaited call
Elapsed == 0..MaxMs

(***************************************************************************)
(* The inference log.                                                      *)
(***************************************************************************)
\* writeTimestampedTxtFile(directory, prefix, data): persists one request or
\* response. The persistence is best-effort: a write that fails (ok = FALSE)
\* leaves no file and does not raise.
WriteTimestampedTxtFile(written, name, ok) ==
  [files |-> IF ok THEN Append(written, name) ELSE written, threw |-> FALSE]

\* appendSummary(inferenceType, entry): appends one row to the summary, also
\* best-effort
AppendSummary(written, ok) ==
  [files |-> IF ok THEN Append(written, "summary") ELSE written, threw |-> FALSE]

\* if (logInferenceToFile) { writeTimestampedTxtFile(...) } and, after a
\* response, if (logInferenceToFile) { appendSummary(...) }: no try/catch, so
\* the block ends the way the helpers end
LogInference_FailsCall(log, written, name, summary, ok) ==
  IF ~log THEN [files |-> written, threw |-> FALSE]
  ELSE LET w == WriteTimestampedTxtFile(written, name, ok)
           a == IF summary THEN AppendSummary(w.files, ok) ELSE w
       IN [files |-> a.files, threw |-> ~ok]

LogInference(log, written, name, summary, ok) ==
  IF ~log THEN [files |-> written, threw |-> FALSE]
  ELSE LET w == WriteTimestampedTxtFile(written, name, ok)
       IN IF w.threw \/ ~summary THEN w ELSE AppendSummary(w.files, ok)

\* the outcomes of the writes of one call: none is attempted without the flag
WriteOutcomes(log) == IF log THEN BOOLEAN ELSE {TRUE}

\* no call has been made again yet
NoReplay == [op |-> "none", inputs |-> <<>>, result |-> "none"]

\* the k-th model response of a call: any of them for a first call, the k-th
\* response of the first call when the call is made again
ResponsesFor(op, k, any) ==
  IF replay.op # op THEN any
  ELSE IF k <= Len(replay.inputs) THEN {replay.inputs[k]}
  ELSE {}

\* the call in progress is the first one
FirstCall(op) == replay.op # op

(***************************************************************************)
(* act                                                                     *)
(***************************************************************************)
\* The texts a tool call can carry as function.arguments.
ArgTexts == {"{\"method\":\"click\"}", "{\"method\":\"fill\"}", "{\"method\":"}

\* JSON.parse on the argument texts: the parsed object (written obj:...), or a
\* SyntaxError.
JSONParse(text) ==
  CASE text = "{\"method\":\"click\"}" -> "obj:method=click"
    [] text = "{\"method\":\"fill\"}" -> "obj:method=fill"
    [] OTHER -> "SyntaxError"

ToolNames == {"doAction", "skipSection"}

ToolCall == [name : ToolNames, arguments : ArgTexts]

RECURSIVE SeqsUpTo(_, _)
SeqsUpTo(S, n) ==
  IF n = 0 THEN {<<>>}
  ELSE LET shorter == SeqsUpTo(S, n - 1)
       IN shorter \cup {Append(s, e) : s \in {t \in shorter : Len(t) = n - 1}, e \in S}

\* rawResponse.choices?.[0]?.message?.tool_calls: undefined (defined = FALSE) or
\* a list of calls
NoToolCalls == [defined |-> FALSE, calls |-> <<>>]

ToolCallLists ==
  {NoToolCalls} \cup [defined : {TRUE}, calls : SeqsUpTo(ToolCall, MaxToolCalls)]

\* toolCalls && toolCalls.length > 0
HasToolCalls(toolCalls) ==
  toolCalls.defined /\ Len(toolCalls.calls) > 0

\* toolCalls[0].function.name === "skipSection"
IsSkipSection_Never(toolCalls) == FALSE

IsSkipSection(toolCalls) == toolCalls.calls[1].name = "skipSection"

\* if (retries >= 2) return null
RetriesExhausted_Late(retries) == retries >= 3

RetriesExhausted_Early(retries) == retries >= 1

RetriesExhausted(retries) == retries >= 2

\* the body of act up to createChatCompletion: the call file is written
ActEnter(log, failed) ==
  \E ok \in WriteOutcomes(log) :
    LET w == LogInference(log, <<>>, "act_call", FALSE, ok)
    IN /\ actWriteFailed' = (failed \/ ~ok)
       /\ actPc' = IF w.threw THEN "threw" ELSE "calling"
       /\ actResult' = IF w.threw THEN "WriteError" ELSE "pending"

\* act({..., retries = 0, ...}) called by the harness
ActCall ==
  /\ actPc = "idle"
  /\ \E r \in 0..MaxInitRetries, log \in BOOLEAN :
       /\ actRetries0' = r
       /\ actRetries' = r
       /\ actLogToFile' = log
       /\ ActEnter(log, FALSE)
  /\ UNCHANGED <<actResponses, actMetrics, actUsed, actReported>>
  /\ UNCHANGED notAct

\* the usage a response of act carries
ActUsages ==
  {NoUsage,
   [defined |-> TRUE, prompt_tokens |-> MaxTokens, completion_tokens |-> 0],
   [defined |-> TRUE, prompt_tokens |-> 0, completion_tokens |-> MaxTokens]}

NoTokens == [prompt |-> 0, completion |-> 0]

\* the sums after onActMetrics(promptTokens, completionTokens, inferenceTimeMs)
AddTokens(sums, promptTokens, completionTokens) ==
  [prompt |-> sums.prompt + promptTokens, completion |-> sums.completion + completionTokens]

\* onActMetrics called after the tool calls are inspected, on the branch
\* that found one
ReportsMetrics_AfterInspection(toolCalls) == HasToolCalls(toolCalls)

\* if (onActMetrics) onActMetrics(...), with a callback supplied: placed before
\* rawResponse.choices?.[0]?.message?.tool_calls is read
ReportsMetrics(toolCalls) == TRUE

\* createChatCompletion resolves; the rest of the body runs to its return or to
\* the recursive call, which is made with the same logInferenceToFile.
ActRespond ==
  /\ actPc = "calling"
  /\ \E toolCalls \in ResponsesFor("act", Len(actResponses) + 1, ToolCallLists),
        ok \in WriteOutcomes(actLogToFile), usage \in ActUsages :
       LET w == LogInference(actLogToFile, <<>>, "act_response", TRUE, ok)
       IN /\ actResponses' = Append(actResponses, toolCalls)
          /\ actUsed' = AddTokens(actUsed,
                                  IF usage.defined THEN usage.prompt_tokens ELSE 0,
                                  IF usage.defined THEN usage.completion_tokens ELSE 0)
          /\ IF w.threw
             THEN /\ actResult' = "WriteError"
                  /\ actPc' = "threw"
                  /\ actWriteFailed' = TRUE
                  /\ UNCHANGED <<actRetries, actMetrics, actReported>>
             ELSE /\ IF ReportsMetrics(toolCalls)
                     THEN /\ actMetrics' = actMetrics + 1
                          /\ actReported' = AddTokens(actReported, PromptTokensOf(usage),
                                                      CompletionTokensOf(usage))
                     ELSE UNCHANGED <<actMetrics, actReported>>
                  /\ IF HasToolCalls(toolCalls)
                     THEN /\ actWriteFailed' = (actWriteFailed \/ ~ok)
                          /\ UNCHANGED actRetries
                          /\ IF IsSkipSection(toolCalls)
                             THEN /\ actResult' = "null"
                                  /\ actPc' = "returned"
                             ELSE LET parsed == JSONParse(toolCalls.calls[1].arguments)
                                  IN /\ actResult' = parsed
                                     /\ actPc' = IF parsed = "SyntaxError"
                                                 THEN "threw" ELSE "returned"
                     ELSE IF RetriesExhausted(actRetries)
                          THEN /\ actResult' = "null"
                               /\ actPc' = "returned"
                               /\ actWriteFailed' = (actWriteFailed \/ ~ok)
                               /\ UNCHANGED actRetries
                          ELSE /\ actRetries' = actRetries + 1
                               /\ ActEnter(actLogToFile, actWriteFailed \/ ~ok)
  /\ UNCHANGED <<actRetries0, actLogToFile>>
  /\ UNCHANGED notAct

\* createChatCompletion rejects: act propagates the rejection
ActClientThrows ==
  /\ actPc = "calling"
  /\ FirstCall("act")
  /\ actPc' = "threw"
  /\ actResult' = "ClientError"
  /\ UNCHANGED <<actRetries0, actRetries, actResponses, actMetrics, actUsed, actReported,
                 actLogToFile, actWriteFailed>>
  /\ UNCHANGED notAct

\* the harness makes the call again: the same arguments but logInferenceToFile
\* flipped, and the model client answers as it did
ActAgain ==
  /\ actPc = "returned"
  /\ replay = NoReplay
  /\ replay' = [op |-> "act", inputs |-> actResponses, result |-> actResult]
  /\ actRetries' = actRetries0
  /\ actLogToFile' = ~actLogToFile
  /\ ActEnter(~actLogToFile, FALSE)
  /\ actResponses' = <<>>
  /\ actMetrics' = 0
  /\ actUsed' = NoTokens
  /\ actReported' = NoTokens
  /\ UNCHANGED actRetries0
  /\ UNCHANGED <<verifyVars, extractVars, observeVars, treeVars, axVars, handlerVars,
                 selectorVars, deviceVars, fillVars>>

ActInit ==
  /\ actPc = "idle"
  /\ actRetries0 = 0
  /\ actRetries = 0
  /\ actResponses = <<>>
  /\ actMetrics = 0
  /\ actUsed = NoTokens
  /\ actReported = NoTokens
  /\ actResult = "pending"
  /\ actLogToFile = FALSE
  /\ actWriteFailed = FALSE

(***************************************************************************)
(* verifyActCompletion                                                     *)
(***************************************************************************)
\* parsedResponse.data: typeof ("undefined", "null" for null, "string",
\* "object") and, for an object, its completed field ("undefined" when absent)
VerifyData ==
  [typeof : {"undefined", "null", "string"}, completed : {"undefined"}] \cup
  [typeof : {"object"}, completed : {"undefined", "true", "false", "'yes'", "null"}]

\* !verificationData || typeof verificationData !== "object"
\* (undefined and null are falsy; a string is not an object)
VerifyUnexpectedFormat(data) == data.typeof # "object"

\* verificationData.completed === undefined
VerifyMissingCompleted_Never(data) == FALSE

VerifyMissingCompleted(data) == data.completed = "undefined"

NoResponse == [data |-> [typeof |-> "undefined", completed |-> "undefined"],
               usage |-> NoUsage]

NoVerifyResult == [completed |-> "pending", prompt_tokens |-> 0,
                   completion_tokens |-> 0, inference_time_ms |-> 0]

\* verifyActCompletion({..., logInferenceToFile = false}) called by the harness;
\* with logInferenceToFile the request is written to a file first
VerifyEnter(log) ==
  \E ok \in WriteOutcomes(log) :
    LET w == LogInference(log, <<>>, "verify_call", FALSE, ok)
    IN /\ vLogToFile' = log
       /\ vFiles' = w.files
       /\ vPc' = IF w.threw THEN "threw" ELSE "calling"

VerifyCall ==
  /\ vPc = "idle"
  /\ \E log \in BOOLEAN : VerifyEnter(log)
  /\ UNCHANGED <<vResponse, vResult>>
  /\ UNCHANGED notVerify

\* createChatCompletion resolves with {data, usage}; the body runs to its return
VerifyRespond ==
  /\ vPc = "calling"
  /\ \E r \in ResponsesFor("verify", 1, [data : VerifyData, usage : Usages, ms : Elapsed]),
        ok \in WriteOutcomes(vLogToFile) :
       LET data == r.data
           usage == r.usage
           ms == r.ms
           w == LogInference(vLogToFile, vFiles, "verify_response", TRUE, ok)
       IN /\ vResponse' = [data |-> data, usage |-> usage]
          /\ vFiles' = w.files
          /\ IF w.threw
             THEN /\ vPc' = "threw"
                  /\ UNCHANGED vResult
             ELSE /\ vPc' = "returned"
                  /\ vResult' =
                       [completed |->
                          IF VerifyUnexpectedFormat(data) THEN "false"
                          ELSE IF VerifyMissingCompleted(data) THEN "false"
                          ELSE data.completed,
                        prompt_tokens |-> PromptTokensOf(usage),
                        completion_tokens |-> CompletionTokensOf(usage),
                        inference_time_ms |-> ms]
  /\ UNCHANGED vLogToFile
  /\ UNCHANGED notVerify

\* createChatCompletion rejects: verifyActCompletion propagates the rejection
VerifyClientThrows ==
  /\ vPc = "calling"
  /\ FirstCall("verify")
  /\ vPc' = "threw"
  /\ UNCHANGED <<vResponse, vResult, vLogToFile, vFiles>>
  /\ UNCHANGED notVerify

\* the harness makes the call again with logInferenceToFile flipped
VerifyAgain ==
  /\ vPc = "returned"
  /\ replay = NoReplay
  /\ replay' = [op |-> "verify",
                inputs |-> <<[data |-> vResponse.data, usage |-> vResponse.usage,
                              ms |-> vResult.inference_time_ms]>>,
                result |-> vResult]
  /\ VerifyEnter(~vLogToFile)
  /\ vResponse' = NoResponse
  /\ vResult' = NoVerifyResult
  /\ UNCHANGED <<actVars, extractVars, observeVars, treeVars, axVars, handlerVars,
                 selectorVars, deviceVars, fillVars>>

VerifyInit ==
  /\ vPc = "idle"
  /\ vResponse = NoResponse
  /\ vResult = NoVerifyResult
  /\ vLogToFile = FALSE
  /\ vFiles = <<>>

(***************************************************************************)
(* extract                                                                 *)
(***************************************************************************)
\* data of the extract and refine stages
ExtractData == {"undefined", "{a:1}"}

\* data of the metadata stage: absent (defined = FALSE) or {completed, progress}
MetadataData ==
  {[defined |-> FALSE, completed |-> "undefined", progress |-> "undefined"]} \cup
  [defined : {TRUE}, completed : {"true", "false"}, progress : {"'half'"}]

\* totalPromptTokens
TotalPromptTokens_TwoStages(stages) ==
  PromptTokensOf(stages[1].usage) + PromptTokensOf(stages[2].usage)

TotalPromptTokens(stages) ==
  PromptTokensOf(stages[1].usage) + PromptTokensOf(stages[2].usage)
    + PromptTokensOf(stages[3].usage)

\* totalCompletionTokens
TotalCompletionTokens(stages) ==
  CompletionTokensOf(stages[1].usage) + CompletionTokensOf(stages[2].usage)
    + CompletionTokensOf(stages[3].usage)

\* totalInferenceTimeMs
TotalInferenceTimeMs(stages) ==
  stages[1].ms + stages[2].ms + stages[3].ms

NoExtractResult ==
  [data |-> "pending", completed |-> "undefined", progress |-> "undefined",
   prompt_tokens |-> 0, completion_tokens |-> 0, inference_time_ms |-> 0]

\* the previouslyExtractedContent argument
PreviouslyExtracted == "{a:0}"

\* extractCallMessages: the prompts built from the instruction and domElements
ExtractRequest == [name |-> "extract", from |-> [domElements |-> "dom"]]

\* refineCallMessages: buildRefineUserPrompt(instruction,
\* previouslyExtractedContent, extractedData)
RefineRequest_WithoutExtracted(stages) ==
  [name |-> "refine",
   from |-> [previous |-> PreviouslyExtracted, extracted |-> "undefined"]]

RefineRequest(stages) ==
  [name |-> "refine",
   from |-> [previous |-> PreviouslyExtracted, extracted |-> stages[1].data]]

\* metadataCallMessages: buildMetadataPrompt(instruction, refinedResponseData,
\* chunksSeen, chunksTotal)
MetadataRequest(stages) ==
  [name |-> "metadata", from |-> [refined |-> stages[2].data]]

\* ...refinedResponseData: the own fields of the refined data, none when it is
\* undefined
SpreadFields(data) == IF data = "undefined" THEN "{}" ELSE data

ExtractEnter(log) ==
  \E ok \in WriteOutcomes(log) :
    LET w == LogInference(log, <<>>, "extract_call", FALSE, ok)
    IN /\ xLogToFile' = log
       /\ xRequests' = IF w.threw THEN <<>> ELSE <<ExtractRequest>>
       /\ xWriteFailed' = ~ok
       /\ xPc' = IF w.threw THEN "threw" ELSE "extract"

ExtractCall ==
  /\ xPc = "idle"
  /\ \E log \in BOOLEAN : ExtractEnter(log)
  /\ UNCHANGED <<xStages, xResult>>
  /\ UNCHANGED notExtract

\* a stage's response is logged and the next stage's request is written
ExtractLogsBetween(response, call, ok) ==
  LET r == LogInference(xLogToFile, <<>>, response, TRUE, ok)
  IN IF r.threw THEN r ELSE LogInference(xLogToFile, <<>>, call, FALSE, ok)

\* the extract call resolves; the refine request is built from its data
ExtractStageRespond ==
  /\ xPc = "extract"
  /\ \E stage \in ResponsesFor("extract", 1,
                       [name : {"extract"}, data : ExtractData, usage : Usages, ms : Elapsed]),
        ok \in WriteOutcomes(xLogToFile) :
       /\ xStages' = Append(xStages, stage)
       /\ xWriteFailed' = (xWriteFailed \/ ~ok)
       /\ IF ExtractLogsBetween("extract_response", "refine_call", ok).threw
          THEN xPc' = "threw" /\ UNCHANGED xRequests
          ELSE /\ xPc' = "refine"
               /\ xRequests' = Append(xRequests, RefineRequest(xStages'))
  /\ UNCHANGED <<xResult, xLogToFile>>
  /\ UNCHANGED notExtract

\* the refine call resolves; the metadata request is built from its data
RefineStageRespond ==
  /\ xPc = "refine"
  /\ \E stage \in ResponsesFor("extract", 2,
                       [name : {"refine"}, data : ExtractData, usage : Usages, ms : Elapsed]),
        ok \in WriteOutcomes(xLogToFile) :
       /\ xStages' = Append(xStages, stage)
       /\ xWriteFailed' = (xWriteFailed \/ ~ok)
       /\ IF ExtractLogsBetween("refine_response", "metadata_call", ok).threw
          THEN xPc' = "threw" /\ UNCHANGED xRequests
          ELSE /\ xPc' = "metadata"
               /\ xRequests' = Append(xRequests, MetadataRequest(xStages'))
  /\ UNCHANGED <<xResult, xLogToFile>>
  /\ UNCHANGED notExtract

\* the metadata call resolves; its data is destructured (a TypeError when it is
\* absent), the response is logged and the result is assembled
MetadataStageRespond ==
  /\ xPc = "metadata"
  /\ \E r \in ResponsesFor("extract", 3,
                   [meta : MetadataData, usage : Usages, ms : Elapsed]),
        ok \in WriteOutcomes(xLogToFile) :
       LET meta == r.meta
           stage == [name |-> "metadata", data |-> meta.completed,
                     progress |-> meta.progress, usage |-> r.usage, ms |-> r.ms]
           stages == Append(xStages, stage)
           w == LogInference(xLogToFile, <<>>, "metadata_response", TRUE, ok)
       IN /\ xStages' = stages
          /\ IF ~meta.defined
             THEN /\ xPc' = "threw"
                  /\ UNCHANGED <<xResult, xWriteFailed>>
             ELSE IF w.threw
             THEN /\ xPc' = "threw"
                  /\ xWriteFailed' = TRUE
                  /\ UNCHANGED xResult
             ELSE /\ xPc' = "returned"
                  /\ xWriteFailed' = (xWriteFailed \/ ~ok)
                  /\ xResult' =
                       [data |-> SpreadFields(stages[2].data),
                        completed |-> meta.completed,
                        progress |-> meta.progress,
                        prompt_tokens |-> TotalPromptTokens(stages),
                        completion_tokens |-> TotalCompletionTokens(stages),
                        inference_time_ms |-> TotalInferenceTimeMs(stages)]
  /\ UNCHANGED <<xLogToFile, xRequests>>
  /\ UNCHANGED notExtract

\* one of the three createChatCompletion calls rejects
ExtractClientThrows ==
  /\ xPc \in {"extract", "refine", "metadata"}
  /\ FirstCall("extract")
  /\ xPc' = "threw"
  /\ UNCHANGED <<xStages, xResult, xLogToFile, xWriteFailed, xRequests>>
  /\ UNCHANGED notExtract

\* the harness makes the call again with logInferenceToFile flipped
ExtractAgain ==
  /\ xPc = "returned"
  /\ replay = NoReplay
  /\ replay' =
       [op |-> "extract",
        inputs |-> <<xStages[1], xStages[2],
                     [meta |-> [defined |-> TRUE, completed |-> xStages[3].data,
                                progress |-> xStages[3].progress],
                      usage |-> xStages[3].usage, ms |-> xStages[3].ms]>>,
        result |-> xResult]
  /\ ExtractEnter(~xLogToFile)
  /\ xStages' = <<>>
  /\ xResult' = NoExtractResult
  /\ UNCHANGED <<actVars, verifyVars, observeVars, treeVars, axVars, handlerVars,
                 selectorVars, deviceVars, fillVars>>

ExtractInit ==
  /\ xPc = "idle"
  /\ xStages = <<>>
  /\ xResult = NoExtractResult
  /\ xLogToFile = FALSE
  /\ xWriteFailed = FALSE
  /\ xRequests = <<>>

(***************************************************************************)
(* observe                                                                 *)
(***************************************************************************)
\* one element of the model's answer: elementId as a number, a numeric string
\* or another string; description and method present or absent
ObserveElements ==
  [elementId : {"7", "'7'", "'x'"}, description : {"'btn'", "undefined"},
   method : {"'click'", "undefined"}]

\* Number(el.elementId)
NumberOf(v) ==
  CASE v = "7" -> "7"
    [] v = "'7'" -> "7"
    [] OTHER -> "NaN"

\* String(el.description), String(el.method)
StringOf(v) ==
  IF v = "undefined" THEN "'undefined'" ELSE v

\* observeData: absent (defined = FALSE), or an object whose elements field is
\* absent ("undefined"), an array, or a string
ObserveData ==
  [defined : {FALSE}, elements : {"undefined"}, items : {<<>>}] \cup
  [defined : {TRUE}, elements : {"undefined", "string"}, items : {<<>>}] \cup
  [defined : {TRUE}, elements : {"array"}, items : SeqsUpTo(ObserveElements, MaxElements)]

\* reading observeData.elements throws a TypeError when observeData is absent,
\* and calling map on a value that is no array does too
ObserveThrows(data) ==
  \/ ~data.defined
  \/ data.elements = "string"

\* the callback of map: base, and method/arguments with returnAction
ParseElement(el, returnAction) ==
  [elementId |-> NumberOf(el.elementId),
   description |-> StringOf(el.description),
   method |-> IF returnAction THEN StringOf(el.method) ELSE "absent"]

\* observeData.elements?.map(...) ?? []
ParsedElements(data, returnAction) ==
  IF data.elements = "array"
  THEN [i \in 1..Len(data.items) |-> ParseElement(data.items[i], returnAction)]
  ELSE <<>>

NoObserveResponse ==
  [data |-> [defined |-> FALSE, elements |-> "undefined", items |-> <<>>],
   usage |-> NoUsage]

NoObserveResult ==
  [elements |-> <<>>, prompt_tokens |-> 0, completion_tokens |-> 0,
   inference_time_ms |-> 0]

\* observe({..., returnAction = false, logInferenceToFile = false})
ObserveEnter(returnAction, log) ==
  \E ok \in WriteOutcomes(log) :
    LET w == LogInference(log, <<>>, "observe_call", FALSE, ok)
    IN /\ oReturnAction' = returnAction
       /\ oLogToFile' = log
       /\ oFiles' = w.files
       /\ oPc' = IF w.threw THEN "threw" ELSE "calling"
       /\ oError' = IF w.threw THEN "WriteError" ELSE ""

ObserveCall ==
  /\ oPc = "idle"
  /\ \E returnAction \in BOOLEAN, log \in BOOLEAN : ObserveEnter(returnAction, log)
  /\ UNCHANGED <<oResponse, oResult>>
  /\ UNCHANGED notObserve

\* createChatCompletion resolves with {data, usage}; the body runs to its
\* return. With logInferenceToFile the response file and the summary are
\* written before the elements are read.
ObserveRespond ==
  /\ oPc = "calling"
  /\ \E r \in ResponsesFor("observe", 1, [data : ObserveData, usage : Usages, ms : Elapsed]),
        ok \in WriteOutcomes(oLogToFile) :
       LET data == r.data
           usage == r.usage
           ms == r.ms
           w == LogInference(oLogToFile, oFiles, "observe_response", TRUE, ok)
       IN /\ oResponse' = [data |-> data, usage |-> usage]
          /\ oFiles' = w.files
          /\ IF w.threw
             THEN /\ oPc' = "threw"
                  /\ oError' = "WriteError"
                  /\ UNCHANGED oResult
             ELSE IF ObserveThrows(data)
             THEN /\ oPc' = "threw"
                  /\ oError' = "TypeError"
                  /\ UNCHANGED oResult
             ELSE /\ oPc' = "returned"
                  /\ UNCHANGED oError
                  /\ oResult' =
                       [elements |-> ParsedElements(data, oReturnAction),
                        prompt_tokens |-> PromptTokensOf(usage),
                        completion_tokens |-> CompletionTokensOf(usage),
                        inference_time_ms |-> ms]
  /\ UNCHANGED <<oReturnAction, oLogToFile>>
  /\ UNCHANGED notObserve

\* createChatCompletion rejects: observe propagates the rejection
ObserveClientThrows ==
  /\ oPc = "calling"
  /\ FirstCall("observe")
  /\ oPc' = "threw"
  /\ oError' = "ClientError"
  /\ UNCHANGED <<oReturnAction, oLogToFile, oFiles, oResponse, oResult>>
  /\ UNCHANGED notObserve

\* the harness makes the call again with logInferenceToFile flipped
ObserveAgain ==
  /\ oPc = "returned"
  /\ replay = NoReplay
  /\ replay' = [op |-> "observe",
                inputs |-> <<[data |-> oResponse.data, usage |-> oResponse.usage,
                              ms |-> oResult.inference_time_ms]>>,
                result |-> oResult]
  /\ ObserveEnter(oReturnAction, ~oLogToFile)
  /\ oResponse' = NoObserveResponse
  /\ oResult' = NoObserveResult
  /\ UNCHANGED <<actVars, verifyVars, extractVars, treeVars, axVars, handlerVars,
                 selectorVars, deviceVars, fillVars>>

ObserveInit ==
  /\ oPc = "idle"
  /\ oReturnAction = FALSE
  /\ oLogToFile = FALSE
  /\ oFiles = <<>>
  /\ oResponse = NoObserveResponse
  /\ oResult = NoObserveResult
  /\ oError = ""

(***************************************************************************)
(* buildHierarchicalTree, cleanStructuralNodes, formatSimplifiedTree       *)
(***************************************************************************)
\* A flat node: nodeId (parseInt of the id string; negative ids exist),
\* role, name ("" when absent), parentId (0 when absent). childIds are those
\* of a consistent document: the ids of the nodes that name this one as parent.
TreeRoles == {"generic", "none", "button"}

TreeNames == {"", "x"}

\* sign of the id, role and name of the nodes of the lists: every role with and
\* without a name, and two nodes with a negative id
NodeKinds ==
  [sign : {1}, role : TreeRoles, name : TreeNames] \cup
  {[sign |-> -1, role |-> "generic", name |-> ""],
   [sign |-> -1, role |-> "button", name |-> "x"]}

\* the nodes a list of n - 1 nodes can be extended with: node n has id n or
\* -n, and a parent, if any, earlier in the list
NextFlatNodes(prefix) ==
  {[nodeId |-> kind.sign * (Len(prefix) + 1), role |-> kind.role, name |-> kind.name,
    parentId |-> parent] :
     kind \in NodeKinds,
     parent \in {0} \cup {prefix[j].nodeId : j \in 1..Len(prefix)}}

\* node.childIds && node.childIds.length > 0
HasChildren(nodes, i) ==
  \E j \in 1..Len(nodes) : nodes[j].parentId = nodes[i].nodeId

\* node.name && node.name.trim() !== ""
HasValidName(node) == node.name # ""

\* role is none of "none", "generic", "InlineTextBox"
IsInteractive(node) == node.role \notin {"none", "generic", "InlineTextBox"}

\* first pass: the node gets an entry in nodeMap
Retained(nodes, i) ==
  /\ ~(nodes[i].nodeId < 0)
  /\ (HasValidName(nodes[i]) \/ HasChildren(nodes, i) \/ IsInteractive(nodes[i]))

\* the indices of a set in list order (forEach and filter go through the list)
RECURSIVE InListOrder(_)
InListOrder(indices) ==
  IF indices = {} THEN <<>>
  ELSE LET first == CHOOSE i \in indices : \A j \in indices : i <= j
       IN <<first>> \o InListOrder(indices \ {first})

\* second pass: node i is pushed to the children of parent
LinkedTo(nodes, nodeMap, i, parent) ==
  /\ nodes[i].parentId # 0
  /\ nodes[i].nodeId \in nodeMap
  /\ nodes[i].parentId = parent
  /\ parent \in nodeMap

\* final pass: !node.parentId && nodeMap.has(node.nodeId)
IsRoot(nodes, nodeMap, i) ==
  /\ nodes[i].parentId = 0
  /\ nodes[i].nodeId \in nodeMap

\* the node object of nodeMap with the children linked to it (no children
\* field when nothing was pushed: the empty sequence)
RECURSIVE MakeTree(_, _, _)
MakeTree(nodes, children, i) ==
  LET kids == children[nodes[i].nodeId]
  IN [nodeId |-> nodes[i].nodeId, role |-> nodes[i].role, name |-> nodes[i].name,
      children |-> [k \in 1..Len(kids) |-> MakeTree(nodes, children, kids[k])]]

\* role === "generic" || role === "none"
IsStructural(node) == node.role \in {"generic", "none"}

\* cleanedChildren.length === 1: return cleanedChildren[0]
CollapseSingle_Keep(node, cleanedChildren) == [node EXCEPT !.children = cleanedChildren]

CollapseSingle(node, cleanedChildren) == cleanedChildren[1]

\* cleanStructuralNodes(node): the empty sequence stands for null
RECURSIVE CleanStructuralNodes(_), CleanAll(_)
CleanStructuralNodes(node) ==
  IF node.nodeId < 0 THEN <<>>
  ELSE IF node.children = <<>>
  THEN (IF IsStructural(node) THEN <<>> ELSE <<node>>)
  ELSE LET cleanedChildren == CleanAll(node.children)
       IN IF IsStructural(node)
          THEN IF Len(cleanedChildren) = 1
               THEN <<CollapseSingle(node, cleanedChildren)>>
               ELSE IF Len(cleanedChildren) > 1
               THEN <<[node EXCEPT !.children = cleanedChildren]>>
               ELSE <<>>
          ELSE IF Len(cleanedChildren) > 0
               THEN <<[node EXCEPT !.children = cleanedChildren]>>
               ELSE <<node>>

\* .map((child) => cleanStructuralNodes(child)).filter(Boolean)
CleanAll(seq) ==
  IF seq = <<>> THEN <<>>
  ELSE CleanStructuralNodes(Head(seq)) \o CleanAll(Tail(seq))

\* "  ".repeat(level): the number of spaces
FormatIndent_Flat(level) == 0

FormatIndent(level) == 2 * level

\* the empty line join("\n") puts between the texts of two roots
BlankLine == [indent |-> 0, nodeId |-> 0, role |-> "", name |-> ""]

\* formatSimplifiedTree(node, level): one line `[nodeId] role: name`, the name
\* part left out for an empty name, then the children one level deeper
RECURSIVE FormatSimplifiedTree(_, _), FormatChildren(_, _)
FormatSimplifiedTree(node, level) ==
  <<[indent |-> FormatIndent(level), nodeId |-> node.nodeId, role |-> node.role,
     name |-> node.name]>>
    \o FormatChildren(node.children, level + 1)

FormatChildren(seq, level) ==
  IF seq = <<>> THEN <<>>
  ELSE FormatSimplifiedTree(Head(seq), level) \o FormatChildren(Tail(seq), level)

\* finalTree.map((node) => formatSimplifiedTree(node)).join("\n")
RECURSIVE JoinFormatted(_)
JoinFormatted(trees) ==
  IF trees = <<>> THEN <<>>
  ELSE IF Len(trees) = 1 THEN FormatSimplifiedTree(trees[1], 0)
  ELSE FormatSimplifiedTree(trees[1], 0) \o <<BlankLine>> \o JoinFormatted(Tail(trees))

\* the caller assembles the flat list, node by node
TreeInput ==
  /\ tPc = "idle"
  /\ Len(tNodes) < MaxTreeNodes
  /\ \E node \in NextFlatNodes(tNodes) : tNodes' = Append(tNodes, node)
  /\ UNCHANGED <<tPc, tNodeMap, tChildren, tRoots, tTree, tSimplified>>
  /\ UNCHANGED notTree

\* buildHierarchicalTree(nodes): first pass
TreeFilterPass ==
  /\ tPc = "idle"
  /\ tNodes # <<>>
  /\ tNodeMap' = {tNodes[i].nodeId : i \in {j \in 1..Len(tNodes) : Retained(tNodes, j)}}
  /\ tPc' = "link"
  /\ UNCHANGED <<tNodes, tChildren, tRoots, tTree, tSimplified>>
  /\ UNCHANGED notTree

\* second pass
TreeLinkPass ==
  /\ tPc = "link"
  /\ tChildren' =
       [parent \in tNodeMap |->
          InListOrder({i \in 1..Len(tNodes) : LinkedTo(tNodes, tNodeMap, i, parent)})]
  /\ tPc' = "roots"
  /\ UNCHANGED <<tNodes, tNodeMap, tRoots, tTree, tSimplified>>
  /\ UNCHANGED notTree

\* final pass, up to the root nodes: no parentId, and a key of nodeMap
TreeRootPass ==
  /\ tPc = "roots"
  /\ LET roots == InListOrder({i \in 1..Len(tNodes) : IsRoot(tNodes, tNodeMap, i)})
     IN tRoots' = [k \in 1..Len(roots) |-> MakeTree(tNodes, tChildren, roots[k])]
  /\ tPc' = "clean"
  /\ UNCHANGED <<tNodes, tNodeMap, tChildren, tTree, tSimplified>>
  /\ UNCHANGED notTree

\* final pass: .map((node) => cleanStructuralNodes(node)).filter(Boolean)
TreeCleanPass ==
  /\ tPc = "clean"
  /\ tTree' = CleanAll(tRoots)
  /\ tPc' = "format"
  /\ UNCHANGED <<tNodes, tNodeMap, tChildren, tRoots, tSimplified>>
  /\ UNCHANGED notTree

\* simplifiedFormat; return {tree, simplified}
TreeFormatPass ==
  /\ tPc = "format"
  /\ tSimplified' = JoinFormatted(tTree)
  /\ tPc' = "returned"
  /\ UNCHANGED <<tNodes, tNodeMap, tChildren, tRoots, tTree>>
  /\ UNCHANGED notTree

TreeInit ==
  /\ tPc = "idle"
  /\ tNodes = <<>>
  /\ tNodeMap = {}
  /\ tChildren = <<>>
  /\ tRoots = <<>>
  /\ tTree = <<>>
  /\ tSimplified = <<>>

(***************************************************************************)
(* getAccessibilityTree                                                    *)
(***************************************************************************)
\* An AXNode as getFullAXTree returns it: backendDOMNodeId (0 stands for an
\* absent id), role.value, and the xpath the enrichment adds.
AxBackendIds == 0..1

AxRoles == {"generic", "none", "button"}

\* how the three protocol calls made for a node ended: nothing was called yet
NoSteps == [resolve |-> "skipped", xpath |-> "skipped", tag |-> "skipped"]

\* a node as Accessibility.getFullAXTree returns it (backend 0: no
\* backendDOMNodeId); raw keeps the role as fetched, steps how the calls made
\* for the node ended
AxRawNode ==
  {[backend |-> b, role |-> r, xpath |-> "undefined", raw |-> r, steps |-> NoSteps] :
     b \in AxBackendIds, r \in AxRoles}

\* where control goes when a step inside the try block throws: the catch block
\* logs and rethrows, and the finally block runs
AxAfterFailure_NoFinally == "threw"

AxAfterFailure == "finally"

\* getAccessibilityTree(page, logger): enableCDP("Accessibility") runs before
\* the try block
AxCall ==
  /\ axPc = "idle"
  /\ \/ /\ axEnabled' = TRUE
        /\ axEnableOk' = TRUE
        /\ axPc' = "scrollables"
     \/ /\ axPc' = "threw"
        /\ UNCHANGED <<axEnabled, axEnableOk>>
  /\ UNCHANGED <<axDisableCalls, axDisableOk, axScrollable, axNodes, axI, axFailedAt>>
  /\ UNCHANGED notAx

\* findScrollableElementIds(page)
AxFindScrollables ==
  /\ axPc = "scrollables"
  /\ \/ /\ \E ids \in SUBSET (AxBackendIds \ {0}) : axScrollable' = ids
        /\ axPc' = "fetch"
        /\ UNCHANGED axFailedAt
     \/ /\ axFailedAt' = "scrollables"
        /\ axPc' = AxAfterFailure
        /\ UNCHANGED axScrollable
  /\ UNCHANGED <<axEnabled, axEnableOk, axDisableCalls, axDisableOk, axNodes, axI>>
  /\ UNCHANGED notAx

\* sendCDP("Accessibility.getFullAXTree")
AxFetchTree ==
  /\ axPc = "fetch"
  /\ \/ /\ \E nodes \in SeqsUpTo(AxRawNode, MaxNodes) :
             /\ axNodes' = nodes
             /\ axPc' = IF Len(nodes) = 0 THEN "build" ELSE "enrich"
        /\ axI' = 1
        /\ UNCHANGED axFailedAt
     \/ /\ axFailedAt' = "fetch"
        /\ axPc' = AxAfterFailure
        /\ UNCHANGED <<axNodes, axI>>
  /\ UNCHANGED <<axEnabled, axEnableOk, axDisableCalls, axDisableOk, axScrollable>>
  /\ UNCHANGED notAx

\* `Scrollable, ${existingRole}` for a node findScrollableElementIds found
AxScrollableLabel(node, role) ==
  IF node.backend # 0 /\ node.backend \in axScrollable
    THEN "Scrollable, " \o role
    ELSE role

\* the role of a node whatever became of the tag-name call
AxEnrichedRole_Always(node, steps) == AxScrollableLabel(node, "div")

\* the role of a node after the tag-name substitution and the scrollable label
AxEnrichedRole(node, steps) ==
  AxScrollableLabel(node, IF steps.tag = "ok" THEN "div" ELSE node.role)

\* the ways the calls made for a node can end: DOM.resolveNode throws, returns no
\* objectId or returns one; then the XPath call throws or not, and for a generic
\* or none role Runtime.callFunctionOn throws, returns no tag name or returns one
AxStepOutcomes(node) ==
  IF node.backend = 0
    THEN {NoSteps}
    ELSE {[NoSteps EXCEPT !.resolve = r] : r \in {"fails", "noObject"}}
         \cup [resolve : {"ok"},
               xpath : {"ok", "fails"},
               tag : IF node.role \in {"generic", "none"}
                       THEN {"ok", "empty", "fails"}
                       ELSE {"skipped"}]

\* one iteration of the enrichment loop: DOM.resolveNode, the XPath, the tag
\* name; each failure is caught inside the iteration and logged
AxEnrichNode ==
  /\ axPc = "enrich"
  /\ \E steps \in AxStepOutcomes(axNodes[axI]) :
       LET node == axNodes[axI]
       IN axNodes' =
            [axNodes EXCEPT ![axI] =
               [backend |-> node.backend,
                role |-> AxEnrichedRole(node, steps),
                xpath |-> IF steps.xpath = "ok" THEN "/xpath" ELSE "undefined",
                raw |-> node.raw,
                steps |-> steps]]
  /\ axI' = axI + 1
  /\ axPc' = IF axI = Len(axNodes) THEN "build" ELSE "enrich"
  /\ UNCHANGED <<axEnabled, axEnableOk, axDisableCalls, axDisableOk, axScrollable,
                 axFailedAt>>
  /\ UNCHANGED notAx

\* buildHierarchicalTree(sources)
AxBuild ==
  /\ axPc = "build"
  /\ \/ /\ axPc' = "finally"
        /\ UNCHANGED axFailedAt
     \/ /\ axFailedAt' = "build"
        /\ axPc' = AxAfterFailure
  /\ UNCHANGED <<axEnabled, axEnableOk, axDisableCalls, axDisableOk, axScrollable,
                 axNodes, axI>>
  /\ UNCHANGED notAx

\* finally { await page.disableCDP("Accessibility") }
AxFinally ==
  /\ axPc = "finally"
  /\ axDisableCalls' = axDisableCalls + 1
  /\ \/ /\ axEnabled' = FALSE
        /\ axPc' = IF axFailedAt = "none" THEN "returned" ELSE "threw"
        /\ UNCHANGED axDisableOk
     \/ /\ axDisableOk' = FALSE
        /\ axPc' = "threw"
        /\ UNCHANGED axEnabled
  /\ UNCHANGED <<axEnableOk, axScrollable, axNodes, axI, axFailedAt>>
  /\ UNCHANGED notAx

AxInit ==
  /\ axPc = "idle"
  /\ axEnabled = FALSE
  /\ axEnableOk = FALSE
  /\ axDisableCalls = 0
  /\ axDisableOk = TRUE
  /\ axScrollable = {}
  /\ axNodes = <<>>
  /\ axI = 0
  /\ axFailedAt = "none"

(***************************************************************************)
(* The page and its browser context                                        *)
(***************************************************************************)
BlankUrl == "about:blank"
GoogleUrl == "https://www.google.com"
SiteUrls == {"https://a.example", "https://b.example"}
PopupUrls == {"https://b.example", "https://c.example"}

\* setTimeout(() => resolve(null), 1500) inside the race promise
ArmedTimer_NeverSet == "off"

ArmedTimer == "armed"

\* the race promise is created: the listener is registered, the timer is set
ArmRace ==
  /\ raceListener' = TRUE
  /\ raceTimer' = ArmedTimer
  /\ raceOutcome' = "none"
  /\ raceTab' = "none"

\* the browser reacts to a click: nothing, a tab it will open later, or a tab
\* whose "page" event was emitted before the click call resolved
ClickReaction ==
  \/ UNCHANGED <<popup, openTabs>>
  \/ /\ \E u \in PopupUrls : popup' = u
     /\ UNCHANGED openTabs
  \/ /\ openTabs' = openTabs + 1
     /\ UNCHANGED popup

\* the context emits "page" for a new tab; a registered once-listener of an
\* unresolved race resolves it with the page
NewPageEvent ==
  /\ popup # "none"
  /\ popup' = "none"
  /\ openTabs' = openTabs + 1
  /\ IF raceListener /\ raceOutcome = "none"
     THEN /\ raceOutcome' = "page"
          /\ raceTab' = popup
          /\ raceListener' = FALSE
     ELSE UNCHANGED <<raceOutcome, raceTab, raceListener>>
  /\ UNCHANGED <<pageUrl, raceTimer, tabsClosed, navs>>
  /\ UNCHANGED <<sessionVars, execVars, methodVars>>
  /\ UNCHANGED notHandler

\* the 1.5 s timer fires: resolve(null) settles the race. (Once the listener
\* has settled it, the timer's resolve(null) changes nothing and is left out.)
RaceTimeout ==
  /\ raceTimer = "armed"
  /\ raceOutcome = "none"
  /\ raceTimer' = "fired"
  /\ raceOutcome' = "null"
  /\ UNCHANGED <<pageUrl, openTabs, popup, raceListener, raceTab, tabsClosed, navs>>
  /\ UNCHANGED <<sessionVars, execVars, methodVars>>
  /\ UNCHANGED notHandler

\* goto(newOpenedTab.url()) without the navigation
GotoNewTabUrl_Stay ==
  /\ pageUrl' = pageUrl
  /\ navs' = navs

\* goto(newOpenedTab.url()) resolves: the original page is at the tab's URL
GotoNewTabUrl ==
  /\ pageUrl' = raceTab
  /\ navs' = Append(navs, raceTab)

\* the locals of a finished step are dropped
ForgetRace ==
  /\ raceListener' = FALSE
  /\ raceTimer' = "off"
  /\ raceOutcome' = "none"
  /\ raceTab' = "none"
  /\ tabsClosed' = 0
  /\ navs' = <<>>

PageInit ==
  /\ pageUrl \in {BlankUrl, "https://a.example"}
  /\ openTabs = 0
  /\ popup = "none"
  /\ raceListener = FALSE
  /\ raceTimer = "off"
  /\ raceOutcome = "none"
  /\ raceTab = "none"
  /\ tabsClosed = 0
  /\ navs = <<>>

(***************************************************************************)
(* executeAction                                                           *)
(***************************************************************************)
\* action types whose case is one or more awaited driver calls
DriverTypes == {"double_click", "doubleClick", "type", "keypress", "drag", "move", "key"}

\* case "double_click" and case "doubleClick": the same statements
DoubleClickTypes == {"double_click", "doubleClick"}

\* action types the switch has a case for
SupportedTypes ==
  {"click", "scroll", "wait", "screenshot", "function"} \cup DriverTypes

NavigationNames == {"goto", "back", "forward", "reload"}

\* the actions the agent client hands to the action handler; url is the
\* arguments.url of a function action ("" when absent)
Actions ==
  [type : (SupportedTypes \ {"function"}) \cup {"hover"}, name : {""}, url : {""}]
  \cup [type : {"function"}, name : {"goto"}, url : {"", "https://b.example"}]
  \cup [type : {"function"}, name : {"back", "forward", "reload", "close"}, url : {""}]

\* the actions the agent of the session specification asks for: one action of
\* each kind the handler and the recorder tell apart
AgentActions ==
  {a \in Actions :
     \/ a.type \in {"click", "type", "scroll", "wait", "screenshot", "hover"}
     \/ a.type = "function" /\ a.name \in {"goto", "back", "close"} }

NoAction == [type |-> "none", name |-> "", url |-> ""]

\* name === "goto" && typeof args === "object" && args !== null && "url" in args,
\* or name is back, forward or reload
IsNavigation(action) ==
  /\ action.type = "function"
  /\ \/ action.name = "goto" /\ action.url # ""
     \/ action.name \in {"back", "forward", "reload"}

\* the first statements of executeAction
ExecuteActionStart(action) ==
  /\ ePc' = "before_shot"
  /\ eAction' = action
  /\ eResult' = FALSE
  /\ eError' = ""
  /\ eRecordCalls' = 0
  /\ eDispatched' = FALSE
  /\ eShotFailed' = "none"
  /\ eSynced' = (clientUrl = pageUrl)
  /\ tabsClosed' = 0
  /\ navs' = <<>>

\* await page.screenshot({path: before_screenshot_path}), outside the try block
EBeforeScreenshot ==
  /\ ePc = "before_shot"
  /\ \/ /\ ePc' = "dispatch"
        /\ UNCHANGED <<eShotFailed, eSynced>>
     \/ /\ ePc' = "threw"
        /\ eShotFailed' = "before"
        /\ UNCHANGED eSynced
  /\ UNCHANGED <<eAction, eResult, eError, eRecordCalls, eDispatched>>
  /\ UNCHANGED <<pageVars, sessionVars, methodVars>>
  /\ UNCHANGED notHandler

\* a catch block after which the finally block is not run
ECatch_SkipsFinally ==
  /\ eResult' = FALSE
  /\ eError' = "driver error"
  /\ ePc' = "record"

\* catch (error): result = {success: false, error: errorMessage}; the finally
\* block follows
ECatch ==
  /\ eResult' = FALSE
  /\ eError' = "driver error"
  /\ ePc' = "after_shot"

\* case "click" up to the race: the selector and the element are read (a
\* failure of generateSelector is caught inside it), the cursor feedback never
\* throws, mouse.click is awaited, the race promise is created
EClick ==
  /\ ePc = "dispatch"
  /\ eAction.type = "click"
  /\ eDispatched' = TRUE
  /\ \/ /\ ClickReaction
        /\ ArmRace
        /\ ePc' = "race"
        /\ UNCHANGED <<eResult, eError>>
     \/ /\ ECatch
        /\ UNCHANGED <<openTabs, popup, raceListener, raceTimer, raceOutcome, raceTab>>
  /\ UNCHANGED <<eAction, eRecordCalls, eShotFailed, eSynced>>
  /\ UNCHANGED <<pageUrl, tabsClosed, navs>>
  /\ UNCHANGED <<sessionVars, methodVars>>
  /\ UNCHANGED notHandler

\* the race has resolved: if (newOpenedTab) ... else result = {success: true}
EClickAfterRace ==
  /\ ePc = "race"
  /\ raceOutcome # "none"
  /\ IF raceOutcome = "page"
     THEN /\ ePc' = "tab_close"
          /\ UNCHANGED eResult
     ELSE /\ ePc' = "after_shot"
          /\ eResult' = TRUE
  /\ UNCHANGED <<eAction, eError, eRecordCalls, eDispatched, eShotFailed, eSynced>>
  /\ UNCHANGED <<pageVars, sessionVars, methodVars>>
  /\ UNCHANGED notHandler

\* await newOpenedTab.close()
EClickCloseTab ==
  /\ ePc = "tab_close"
  /\ \/ /\ openTabs' = openTabs - 1
        /\ tabsClosed' = tabsClosed + 1
        /\ ePc' = "tab_goto"
        /\ UNCHANGED <<eResult, eError>>
     \/ /\ ECatch
        /\ UNCHANGED <<openTabs, tabsClosed>>
  /\ UNCHANGED <<eAction, eRecordCalls, eDispatched, eShotFailed, eSynced>>
  /\ UNCHANGED <<pageUrl, popup, raceListener, raceTimer, raceOutcome, raceTab, navs>>
  /\ UNCHANGED <<sessionVars, methodVars>>
  /\ UNCHANGED notHandler

\* await page.goto(newOpenedTab.url())
EClickGoto ==
  /\ ePc = "tab_goto"
  /\ \/ /\ GotoNewTabUrl
        /\ ePc' = "tab_wait"
        /\ UNCHANGED <<eResult, eError>>
     \/ /\ ECatch
        /\ UNCHANGED <<pageUrl, navs>>
  /\ UNCHANGED <<eAction, eRecordCalls, eDispatched, eShotFailed, eSynced>>
  /\ UNCHANGED <<openTabs, popup, raceListener, raceTimer, raceOutcome, raceTab,
                 tabsClosed>>
  /\ UNCHANGED <<sessionVars, methodVars>>
  /\ UNCHANGED notHandler

\* await page.waitForURL(newOpenedTab.url()); result = {success: true}
EClickWaitForURL ==
  /\ ePc = "tab_wait"
  /\ \/ /\ eResult' = TRUE
        /\ ePc' = "after_shot"
        /\ UNCHANGED eError
     \/ ECatch
  /\ UNCHANGED <<eAction, eRecordCalls, eDispatched, eShotFailed, eSynced>>
  /\ UNCHANGED <<pageVars, sessionVars, methodVars>>
  /\ UNCHANGED notHandler

\* the URLs page.goto(args.url), goBack(), goForward() and reload() can leave
\* the page on
NavigationTargets(action) ==
  IF action.name = "goto" THEN {action.url}
  ELSE IF action.name = "reload" THEN {pageUrl}
  ELSE SiteUrls

\* updateClientUrl() that leaves the cached URL alone
UpdateClientUrl_Skip(url) == UNCHANGED clientUrl

\* updateClientUrl(): agentClient.setCurrentUrl(page.url())
UpdateClientUrl(url) == clientUrl' = url

\* the cases other than click. A driver call that throws reaches the catch
\* block (scroll catches it itself, with the same result); a navigation that
\* throws may have moved the page already, and the cached URL is not refreshed.
\* The double-click cases end with mouse.dblclick and result = {success: true}:
\* the browser reacts as to a click, and no race promise is created.
EDispatchOther ==
  /\ ePc = "dispatch"
  /\ eAction.type # "click"
  /\ eDispatched' = TRUE
  /\ \/ /\ eAction.type \in DoubleClickTypes
        /\ \/ /\ ClickReaction
              /\ eResult' = TRUE
              /\ ePc' = "after_shot"
              /\ UNCHANGED eError
           \/ /\ ECatch
              /\ UNCHANGED <<openTabs, popup>>
        /\ UNCHANGED <<pageUrl, clientUrl>>
     \/ /\ eAction.type \in (DriverTypes \ DoubleClickTypes) \cup {"scroll"}
        /\ \/ /\ eResult' = TRUE
              /\ ePc' = "after_shot"
              /\ UNCHANGED eError
           \/ ECatch
        /\ UNCHANGED <<pageUrl, clientUrl, openTabs, popup>>
     \/ /\ eAction.type \in {"wait", "screenshot"}
        /\ eResult' = TRUE
        /\ ePc' = "after_shot"
        /\ UNCHANGED <<eError, pageUrl, clientUrl, openTabs, popup>>
     \/ /\ IsNavigation(eAction)
        /\ \/ /\ \E u \in NavigationTargets(eAction) :
                   /\ pageUrl' = u
                   /\ UpdateClientUrl(u)
              /\ eResult' = TRUE
              /\ ePc' = "after_shot"
              /\ UNCHANGED eError
           \/ /\ ECatch
              /\ \E u \in NavigationTargets(eAction) \cup {pageUrl} : pageUrl' = u
              /\ UNCHANGED clientUrl
        /\ UNCHANGED <<openTabs, popup>>
     \/ /\ eAction.type = "function"
        /\ ~IsNavigation(eAction)
        /\ eResult' = FALSE
        /\ eError' = "Unsupported function"
        /\ ePc' = "after_shot"
        /\ UNCHANGED <<pageUrl, clientUrl, openTabs, popup>>
     \/ /\ eAction.type \notin SupportedTypes
        /\ eResult' = FALSE
        /\ eError' = "Unsupported action type"
        /\ ePc' = "after_shot"
        /\ UNCHANGED <<pageUrl, clientUrl, openTabs, popup>>
  /\ UNCHANGED <<eAction, eRecordCalls, eShotFailed, eSynced>>
  /\ UNCHANGED <<raceListener, raceTimer, raceOutcome, raceTab, tabsClosed, navs>>
  /\ UNCHANGED <<hPc, hOutcome, hHandled, sessionId, recordedActions, files, nActions, pushed>>
  /\ UNCHANGED methodVars
  /\ UNCHANGED notHandler

\* finally { await page.screenshot({path: after_screenshot_path}) }
EAfterScreenshot ==
  /\ ePc = "after_shot"
  /\ \/ /\ ePc' = "record"
        /\ UNCHANGED <<eShotFailed, eSynced>>
     \/ /\ ePc' = "threw"
        /\ eShotFailed' = "after"
        /\ UNCHANGED eSynced
  /\ UNCHANGED <<eAction, eResult, eError, eRecordCalls, eDispatched>>
  /\ UNCHANGED <<pageVars, sessionVars, methodVars>>
  /\ UNCHANGED notHandler

\* the action name recordAction stores
RecordedName(action) ==
  CASE action.type \in {"keypress", "key"} -> "keypress"
    [] action.type = "scroll" -> "scrollElement"
    [] action.type = "move" -> "hover"
    [] IsNavigation(action) /\ action.name = "goto" -> "goto"
    [] IsNavigation(action) /\ action.name = "back" -> "goBack"
    [] IsNavigation(action) /\ action.name = "forward" -> "goForward"
    [] IsNavigation(action) /\ action.name = "reload" -> "reload"
    [] OTHER -> action.type

\* await this.recordAction(action, result, targetElement, selector); return
\* result. recordAction skips a screenshot action, and its catch block drops
\* the entry when the cursor read of a scroll action throws. The session field
\* of an entry is history: the session during which it was recorded.
ERecordAction ==
  /\ ePc = "record"
  /\ eRecordCalls' = eRecordCalls + 1
  /\ ePc' = "returned"
  /\ \/ /\ eAction.type # "screenshot"
        /\ recordedActions' =
             Append(recordedActions,
                    [action |-> RecordedName(eAction), success |-> eResult,
                     session |-> sessionId])
        /\ pushed' = [pushed EXCEPT ![sessionId] = @ + 1]
     \/ /\ eAction.type \in {"screenshot", "scroll"}
        /\ UNCHANGED <<recordedActions, pushed>>
  /\ UNCHANGED <<eAction, eResult, eError, eDispatched, eShotFailed, eSynced>>
  /\ UNCHANGED <<hPc, hOutcome, hHandled, sessionId, files, nActions, clientUrl>>
  /\ UNCHANGED <<pageVars, methodVars>>
  /\ UNCHANGED notHandler

ExecInit ==
  /\ ePc = "idle"
  /\ eAction = NoAction
  /\ eResult = FALSE
  /\ eError = ""
  /\ eRecordCalls = 0
  /\ eDispatched = FALSE
  /\ eShotFailed = "none"
  /\ eSynced = TRUE

(***************************************************************************)
(* StagehandAgentHandler.execute, the action handler, saveRecordedActions  *)
(***************************************************************************)
NoFile == [written |-> FALSE, log |-> <<>>]

\* this.recordedActions = []
ResetLog_Keep(log) == log

ResetLog(log) == <<>>

\* execute(): a blank page is sent to Google, the cursor injection and the
\* initial screenshot are best-effort, the log is reset and a new session id is
\* taken; then agent.execute runs. A failing goto rejects execute before that.
ExecuteCall ==
  /\ hPc = "idle"
  /\ ePc = "idle"
  /\ mPc = "idle"
  /\ sessionId < MaxSessions
  /\ \/ /\ pageUrl' = IF pageUrl = BlankUrl THEN GoogleUrl ELSE pageUrl
        /\ recordedActions' = ResetLog(recordedActions)
        /\ sessionId' = sessionId + 1
        /\ hPc' = "agent"
        /\ hOutcome' = "none"
     \/ /\ pageUrl = BlankUrl
        /\ hOutcome' = "threw"
        /\ UNCHANGED <<pageUrl, recordedActions, sessionId, hPc>>
  /\ UNCHANGED hHandled
  /\ UNCHANGED <<files, nActions, pushed, clientUrl>>
  /\ UNCHANGED <<openTabs, popup, raceListener, raceTimer, raceOutcome, raceTab,
                 tabsClosed, navs>>
  /\ UNCHANGED <<execVars, methodVars>>
  /\ UNCHANGED notHandler

\* no call of the action handler has settled since the agent client last looked
NotHandled == [outcome |-> "none", success |-> FALSE, error |-> ""]

\* the agent client asks the action handler to execute an action: the cursor
\* injection is best-effort, then executeAction(action) is awaited
AgentRequestAction ==
  /\ hPc = "agent"
  /\ nActions < MaxActions
  /\ \E action \in AgentActions : ExecuteActionStart(action)
  /\ hPc' = "handler"
  /\ hHandled' = NotHandled
  /\ nActions' = nActions + 1
  /\ UNCHANGED <<hOutcome, sessionId, recordedActions, files, pushed, clientUrl>>
  /\ UNCHANGED <<pageUrl, openTabs, popup, raceListener, raceTimer, raceOutcome, raceTab>>
  /\ UNCHANGED methodVars
  /\ UNCHANGED notHandler

\* executeAction has finished: the action handler drops the result it returned,
\* takes its screenshot (best-effort) and resolves, or logs and rethrows what
\* executeAction threw; either way control is back in the agent client
HandlerResume ==
  /\ hPc = "handler"
  /\ ePc \in {"returned", "threw"}
  /\ hPc' = "agent"
  /\ hHandled' = [outcome |-> IF ePc = "threw" THEN "rejected" ELSE "resolved",
                  success |-> eResult, error |-> eError]
  /\ ePc' = "idle"
  /\ eAction' = NoAction
  /\ eResult' = FALSE
  /\ eError' = ""
  /\ eRecordCalls' = 0
  /\ eDispatched' = FALSE
  /\ eShotFailed' = "none"
  /\ eSynced' = TRUE
  /\ ForgetRace
  /\ UNCHANGED <<hOutcome, sessionId, recordedActions, files, nActions, pushed, clientUrl>>
  /\ UNCHANGED <<pageUrl, openTabs, popup>>
  /\ UNCHANGED methodVars
  /\ UNCHANGED notHandler

\* agent.execute settles: it resolves with a result (saveRecordedActions
\* follows) or it rejects, and execute rejects with it
AgentSettles ==
  /\ hPc = "agent"
  /\ \/ /\ hPc' = "save"
        /\ UNCHANGED hOutcome
     \/ /\ hPc' = "idle"
        /\ hOutcome' = "threw"
  /\ hHandled' = NotHandled
  /\ UNCHANGED <<sessionId, recordedActions, files, nActions, pushed, clientUrl>>
  /\ UNCHANGED <<pageVars, execVars, methodVars>>
  /\ UNCHANGED notHandler

\* saveRecordedActions: nothing is written for an empty log; a failing
\* writeFileSync is caught and logged. execute returns the agent's result.
SaveRecordedActions ==
  /\ hPc = "save"
  /\ \/ /\ recordedActions # <<>>
        /\ files' = [files EXCEPT ![sessionId] =
                       [written |-> TRUE, log |-> recordedActions]]
     \/ UNCHANGED files
  /\ hPc' = "idle"
  /\ hOutcome' = "returned"
  /\ UNCHANGED hHandled
  /\ UNCHANGED <<sessionId, recordedActions, nActions, pushed, clientUrl>>
  /\ UNCHANGED <<pageVars, execVars, methodVars>>
  /\ UNCHANGED notHandler

SessionInit ==
  /\ hPc = "idle"
  /\ hOutcome = "none"
  /\ hHandled = NotHandled
  /\ sessionId = 0
  /\ recordedActions = <<>>
  /\ files = [id \in 0..MaxSessions |-> NoFile]
  /\ nActions = 0
  /\ pushed = [id \in 0..MaxSessions |-> 0]
  /\ clientUrl = pageUrl

(***************************************************************************)
(* performPlaywrightMethod                                                 *)
(***************************************************************************)
\* the method argument: the special-cased methods, two methods of a locator,
\* and a name that is no method of a locator
Methods == {"scrollIntoView", "fill", "type", "press", "click", "hover", "teleport"}

\* typeof locator[method] === "function"
IsLocatorMethod(method) == method \in {"click", "hover", "scrollIntoView", "fill", "type", "press"}

\* setTimeout(resolve, 5_000) of the network-idle race
ArmedIdleTimer == "armed"

\* performPlaywrightMethod(page, logger, method, args, xpath) called directly
MCall ==
  /\ hPc = "idle"
  /\ ePc = "idle"
  /\ mPc = "idle"
  /\ nActions < MaxCalls
  /\ nActions' = nActions + 1
  /\ \E method \in Methods : mMethod' = method
  /\ mPc' = "dispatch"
  /\ mError' = ""
  /\ mFailure' = ""
  /\ mMessage' = ""
  /\ tabsClosed' = 0
  /\ navs' = <<>>
  /\ UNCHANGED netIdleTimer
  /\ UNCHANGED <<pageUrl, openTabs, popup, raceListener, raceTimer, raceOutcome, raceTab>>
  /\ UNCHANGED <<hPc, hOutcome, hHandled, sessionId, recordedActions, files, pushed, clientUrl>>
  /\ UNCHANGED execVars
  /\ UNCHANGED notHandler

\* the message of the error a rejected browser command carries
DriverMessage == "Timeout 30000ms exceeded."

\* throw new PlaywrightCommandException(e.message)
MThrowCommandException(message) ==
  /\ mPc' = "threw"
  /\ mError' = "PlaywrightCommandException"
  /\ mMessage' = message

\* the branch of the method runs. scrollIntoView attaches a catch handler to the
\* promise of locator.evaluate that logs the rejection, so the surrounding try
\* sees no failure; fill/type, press and the generic branch wrap a failure in
\* PlaywrightCommandException; after a click the race promise is created; a
\* name that is no locator method throws
MDispatch ==
  /\ mPc = "dispatch"
  /\ \/ /\ mMethod = "scrollIntoView"
        /\ \E failure \in {"", DriverMessage} : mFailure' = failure
        /\ mPc' = "returned"
        /\ UNCHANGED <<mError, mMessage>>
        /\ UNCHANGED <<openTabs, popup, raceListener, raceTimer, raceOutcome, raceTab>>
     \/ /\ mMethod \in {"fill", "type", "press"}
        /\ \/ /\ mPc' = "returned"
              /\ UNCHANGED <<mError, mFailure, mMessage>>
           \/ /\ mFailure' = DriverMessage
              /\ MThrowCommandException(DriverMessage)
        /\ UNCHANGED <<openTabs, popup, raceListener, raceTimer, raceOutcome, raceTab>>
     \/ /\ mMethod \notin {"scrollIntoView", "fill", "type", "press"}
        /\ IsLocatorMethod(mMethod)
        /\ \/ /\ mMethod = "click"
              /\ ClickReaction
              /\ ArmRace
              /\ mPc' = "race"
              /\ UNCHANGED <<mError, mFailure, mMessage>>
           \/ /\ mMethod # "click"
              /\ mPc' = "returned"
              /\ UNCHANGED <<mError, mFailure, mMessage, openTabs, popup, raceListener,
                             raceTimer, raceOutcome, raceTab>>
           \/ /\ mFailure' = DriverMessage
              /\ MThrowCommandException(DriverMessage)
              /\ UNCHANGED <<openTabs, popup, raceListener, raceTimer, raceOutcome,
                             raceTab>>
     \/ /\ ~IsLocatorMethod(mMethod)
        /\ mPc' = "threw"
        /\ mError' = "PlaywrightCommandMethodNotSupportedException"
        /\ mMessage' = "Method not supported"
        /\ UNCHANGED mFailure
        /\ UNCHANGED <<openTabs, popup, raceListener, raceTimer, raceOutcome, raceTab>>
  /\ UNCHANGED <<mMethod, netIdleTimer>>
  /\ UNCHANGED <<pageUrl, tabsClosed, navs>>
  /\ UNCHANGED <<sessionVars, execVars>>
  /\ UNCHANGED notHandler

\* an awaited driver call of the new-tab branch throws: nothing catches it
MThrowDriverError ==
  /\ mPc' = "threw"
  /\ mError' = "driver error"
  /\ mMessage' = DriverMessage
  /\ UNCHANGED mFailure

\* the network-idle race is created
MStartIdleRace ==
  /\ mPc' = "netidle"
  /\ netIdleTimer' = ArmedIdleTimer

\* the race has resolved: if (newOpenedTab) ..., else on to the network-idle race
MAfterRace ==
  /\ mPc = "race"
  /\ raceOutcome # "none"
  /\ IF raceOutcome = "page"
     THEN /\ mPc' = "tab_close"
          /\ UNCHANGED netIdleTimer
     ELSE MStartIdleRace
  /\ UNCHANGED <<mMethod, mError, mFailure, mMessage>>
  /\ UNCHANGED <<pageVars, sessionVars, execVars>>
  /\ UNCHANGED notHandler

\* await newOpenedTab.close()
MCloseTab ==
  /\ mPc = "tab_close"
  /\ \/ /\ openTabs' = openTabs - 1
        /\ tabsClosed' = tabsClosed + 1
        /\ mPc' = "tab_goto"
        /\ UNCHANGED <<mError, mFailure, mMessage>>
     \/ /\ MThrowDriverError
        /\ UNCHANGED <<openTabs, tabsClosed>>
  /\ UNCHANGED <<mMethod, netIdleTimer>>
  /\ UNCHANGED <<pageUrl, popup, raceListener, raceTimer, raceOutcome, raceTab, navs>>
  /\ UNCHANGED <<sessionVars, execVars>>
  /\ UNCHANGED notHandler

\* await stagehandPage.goto(newOpenedTab.url())
MGoto ==
  /\ mPc = "tab_goto"
  /\ \/ /\ GotoNewTabUrl
        /\ mPc' = "tab_load"
        /\ UNCHANGED <<mError, mFailure, mMessage>>
     \/ /\ MThrowDriverError
        /\ UNCHANGED <<pageUrl, navs>>
  /\ UNCHANGED <<mMethod, netIdleTimer>>
  /\ UNCHANGED <<openTabs, popup, raceListener, raceTimer, raceOutcome, raceTab,
                 tabsClosed>>
  /\ UNCHANGED <<sessionVars, execVars>>
  /\ UNCHANGED notHandler

\* await stagehandPage.waitForLoadState("domcontentloaded")
MWaitLoaded ==
  /\ mPc = "tab_load"
  /\ \/ /\ MStartIdleRace
        /\ UNCHANGED <<mError, mFailure, mMessage>>
     \/ /\ MThrowDriverError
        /\ UNCHANGED netIdleTimer
  /\ UNCHANGED mMethod
  /\ UNCHANGED <<pageVars, sessionVars, execVars>>
  /\ UNCHANGED notHandler

\* waitForLoadState("networkidle") settles before the timer: it resolves, or
\* it rejects and the catch handler logs; the function returns
MNetworkIdleSettles ==
  /\ mPc = "netidle"
  /\ netIdleTimer = "armed"
  /\ mPc' = "returned"
  /\ UNCHANGED <<mMethod, mError, mFailure, mMessage, netIdleTimer>>
  /\ UNCHANGED <<pageVars, sessionVars, execVars>>
  /\ UNCHANGED notHandler

\* the 5 s timer fires first: the race resolves and the function returns
NetIdleTimeout ==
  /\ mPc = "netidle"
  /\ netIdleTimer = "armed"
  /\ netIdleTimer' = "fired"
  /\ mPc' = "returned"
  /\ UNCHANGED <<mMethod, mError, mFailure, mMessage>>
  /\ UNCHANGED <<pageVars, sessionVars, execVars>>
  /\ UNCHANGED notHandler

\* the caller of performPlaywrightMethod resumes; the locals are dropped
MSettled ==
  /\ mPc \in {"returned", "threw"}
  /\ mPc' = "idle"
  /\ mMethod' = "none"
  /\ mError' = ""
  /\ mFailure' = ""
  /\ mMessage' = ""
  /\ netIdleTimer' = "off"
  /\ ForgetRace
  /\ UNCHANGED <<pageUrl, openTabs, popup>>
  /\ UNCHANGED <<sessionVars, execVars>>
  /\ UNCHANGED notHandler

\* executeAction(action) called directly, as the action handler calls it,
\* with an action of the set given
ECallOf(actions) ==
  /\ hPc = "idle"
  /\ ePc = "idle"
  /\ mPc = "idle"
  /\ nActions < MaxCalls
  /\ nActions' = nActions + 1
  /\ \E action \in actions : ExecuteActionStart(action)
  /\ UNCHANGED <<hPc, hOutcome, hHandled, sessionId, recordedActions, files, pushed, clientUrl>>
  /\ UNCHANGED <<pageUrl, openTabs, popup, raceListener, raceTimer, raceOutcome, raceTab>>
  /\ UNCHANGED methodVars
  /\ UNCHANGED notHandler

ECall == ECallOf(Actions)

ClickActions == {a \in Actions : a.type = "click"}

EClickCall == ECallOf(ClickActions)

\* the direct caller of executeAction resumes; the locals are dropped
ESettled ==
  /\ hPc = "idle"
  /\ ePc \in {"returned", "threw"}
  /\ ePc' = "idle"
  /\ eAction' = NoAction
  /\ eResult' = FALSE
  /\ eError' = ""
  /\ eRecordCalls' = 0
  /\ eDispatched' = FALSE
  /\ eShotFailed' = "none"
  /\ eSynced' = TRUE
  /\ ForgetRace
  /\ UNCHANGED <<pageUrl, openTabs, popup>>
  /\ UNCHANGED <<sessionVars, methodVars>>
  /\ UNCHANGED notHandler

MethodInit ==
  /\ mPc = "idle"
  /\ mMethod = "none"
  /\ mError = ""
  /\ mMessage = ""
  /\ mFailure = ""
  /\ netIdleTimer = "off"

(***************************************************************************)
(* executeAction: the keyboard, mouse and cursor calls of keypress, drag,  *)
(* move, click and double_click                                            *)
(***************************************************************************)
\* the key names the agent sends
KeyNames == {"CTRL", "CMD", "ENTER", "ARROW_UP", "CONTROL", "a"}

\* the characters of the key names and of the texts they are searched for
KeyChars ==
  ("CTRL" :> <<"C", "T", "R", "L">>) @@
  ("CMD" :> <<"C", "M", "D">>) @@
  ("COMMAND" :> <<"C", "O", "M", "M", "A", "N", "D">>) @@
  ("ENTER" :> <<"E", "N", "T", "E", "R">>) @@
  ("ARROW_UP" :> <<"A", "R", "R", "O", "W", "_", "U", "P">>) @@
  ("ARROW_DOWN" :> <<"A", "R", "R", "O", "W", "_", "D", "O", "W", "N">>) @@
  ("ARROW_LEFT" :> <<"A", "R", "R", "O", "W", "_", "L", "E", "F", "T">>) @@
  ("ARROW_RIGHT" :> <<"A", "R", "R", "O", "W", "_", "R", "I", "G", "H", "T">>) @@
  ("CONTROL" :> <<"C", "O", "N", "T", "R", "O", "L">>) @@
  ("SPACE" :> <<"S", "P", "A", "C", "E">>) @@
  ("TAB" :> <<"T", "A", "B">>) @@
  ("ESCAPE" :> <<"E", "S", "C", "A", "P", "E">>) @@
  ("ESC" :> <<"E", "S", "C">>) @@
  ("BACKSPACE" :> <<"B", "A", "C", "K", "S", "P", "A", "C", "E">>) @@
  ("DELETE" :> <<"D", "E", "L", "E", "T", "E">>) @@
  ("a" :> <<"a">>)

\* key.includes(text)
KeyIncludes(key, text) ==
  LET k == KeyChars[key]
      t == KeyChars[text]
  IN \E at \in 0..(Len(k) - Len(t)) : \A i \in 1..Len(t) : k[at + i] = t[i]

\* key.toUpperCase()
ToUpperCase(key) == IF key = "a" THEN "A" ELSE key

Platforms == {"darwin", "linux"}

\* convertKeyName: keyMap[key.toUpperCase()] || key
ConvertKeyName(key, platform) ==
  LET upperKey == ToUpperCase(key)
  IN CASE upperKey = "ENTER" -> "Enter"
       [] upperKey = "ESCAPE" -> "Escape"
       [] upperKey = "BACKSPACE" -> "Backspace"
       [] upperKey = "TAB" -> "Tab"
       [] upperKey = "SPACE" -> " "
       [] upperKey \in {"ARROWUP", "UP"} -> "ArrowUp"
       [] upperKey \in {"ARROWDOWN", "DOWN"} -> "ArrowDown"
       [] upperKey \in {"ARROWLEFT", "LEFT"} -> "ArrowLeft"
       [] upperKey \in {"ARROWRIGHT", "RIGHT"} -> "ArrowRight"
       [] upperKey \in {"SHIFT", "CONTROL"} ->
            IF platform = "darwin" THEN "Meta" ELSE "Control"
       [] upperKey = "ALT" -> "Alt"
       [] upperKey \in {"META", "COMMAND", "CMD"} -> "Meta"
       [] upperKey = "DELETE" -> "Delete"
       [] upperKey = "HOME" -> "Home"
       [] upperKey = "END" -> "End"
       [] upperKey = "PAGEUP" -> "PageUp"
       [] upperKey = "PAGEDOWN" -> "PageDown"
       [] OTHER -> key

\* keys.some((key) => key.includes("CTRL") || key.includes("CMD") ||
\* key.includes("COMMAND"))
HasModifier(keys) ==
  \E i \in 1..Len(keys) :
    \/ KeyIncludes(keys[i], "CTRL")
    \/ KeyIncludes(keys[i], "CMD")
    \/ KeyIncludes(keys[i], "COMMAND")

\* the callback of keys.map in the combination branch
CombinationKey(key, platform) ==
  IF KeyIncludes(key, "CTRL") THEN "Meta"
  ELSE IF KeyIncludes(key, "CMD") \/ KeyIncludes(key, "COMMAND") THEN "Meta"
  ELSE ConvertKeyName(key, platform)

\* the key pressed for one key of a keypress without a modifier
SingleKey(key, platform) ==
  IF KeyIncludes(key, "ENTER") THEN "Enter"
  ELSE IF KeyIncludes(key, "SPACE") THEN " "
  ELSE IF KeyIncludes(key, "TAB") THEN "Tab"
  ELSE IF KeyIncludes(key, "ESCAPE") \/ KeyIncludes(key, "ESC") THEN "Escape"
  ELSE IF KeyIncludes(key, "BACKSPACE") THEN "Backspace"
  ELSE IF KeyIncludes(key, "DELETE") THEN "Delete"
  ELSE IF KeyIncludes(key, "ARROW_UP") THEN "ArrowUp"
  ELSE IF KeyIncludes(key, "ARROW_DOWN") THEN "ArrowDown"
  ELSE IF KeyIncludes(key, "ARROW_LEFT") THEN "ArrowLeft"
  ELSE IF KeyIncludes(key, "ARROW_RIGHT") THEN "ArrowRight"
  ELSE ConvertKeyName(key, platform)

\* one awaited call: its receiver, its method and its argument
DeviceCall(dev, op, arg) == [dev |-> dev, op |-> op, arg |-> arg]

\* playwrightKeys.reverse()
Reverse(seq) == [i \in 1..Len(seq) |-> seq[Len(seq) + 1 - i]]

\* a release loop that walks the keys in the order they were pressed
ReleaseOrder_Forward(playwrightKeys) == playwrightKeys

\* for (const key of playwrightKeys.reverse())
ReleaseOrder(playwrightKeys) == Reverse(playwrightKeys)

\* case "keypress": the keyboard calls, in the order they are awaited
KeypressCalls(keys, platform) ==
  IF ~keys.array THEN <<>>
  ELSE IF HasModifier(keys.items)
  THEN LET playwrightKeys ==
             [i \in 1..Len(keys.items) |-> CombinationKey(keys.items[i], platform)]
           released == ReleaseOrder(playwrightKeys)
       IN [i \in 1..Len(playwrightKeys) |->
             DeviceCall("keyboard", "down", playwrightKeys[i])]
          \o [i \in 1..Len(released) |-> DeviceCall("keyboard", "up", released[i])]
  ELSE [i \in 1..Len(keys.items) |->
          DeviceCall("keyboard", "press", SingleKey(keys.items[i], platform))]

\* the points of a drag path and of the pointer actions
Points == {"p1", "p2", "p3"}

\* updateCursorPosition(x, y); page.mouse.move(x, y)
MoveTo(point) ==
  <<DeviceCall("cursor", "update", point), DeviceCall("mouse", "move", point)>>

RECURSIVE MoveThrough(_)
\* for (let i = 1; i < path.length; i++) { updateCursorPosition; mouse.move }
MoveThrough(points) ==
  IF points = <<>> THEN <<>>
  ELSE MoveTo(Head(points)) \o MoveThrough(Tail(points))

\* Array.isArray(path) && path.length >= 2, with a threshold of one point
IsDragPath_OnePoint(path) == path.array /\ Len(path.items) >= 1

\* Array.isArray(path) && path.length >= 2
IsDragPath(path) == path.array /\ Len(path.items) >= 2

\* case "drag"
DragCalls(path) ==
  IF IsDragPath(path)
  THEN MoveTo(path.items[1]) \o <<DeviceCall("mouse", "down", "")>>
       \o MoveThrough(Tail(path.items)) \o <<DeviceCall("mouse", "up", "")>>
  ELSE <<>>

\* case "move"
MoveCalls(point) == MoveTo(point)

\* case "click" up to mouse.click: the cursor is moved and the click animated
ClickCalls(point) ==
  <<DeviceCall("cursor", "update", point), DeviceCall("cursor", "animate", point),
    DeviceCall("mouse", "click", point)>>

\* case "double_click": two animations, then mouse.dblclick
DoubleClickCalls(point) ==
  <<DeviceCall("cursor", "update", point), DeviceCall("cursor", "animate", point),
    DeviceCall("cursor", "animate", point), DeviceCall("mouse", "dblclick", point)>>

NotArray == [array |-> FALSE, items |-> <<>>]

\* the actions with keyboard or pointer calls; keys and path are arrays, or
\* absent
KeyLists == {NotArray} \cup [array : {TRUE}, items : SeqsUpTo(KeyNames, MaxKeys)]

PathLists == {NotArray} \cup [array : {TRUE}, items : SeqsUpTo(Points, MaxPath)]

DeviceActions ==
  [type : {"keypress"}, keys : KeyLists, path : {NotArray}]
  \cup [type : {"drag"}, keys : {NotArray}, path : PathLists]
  \cup [type : {"move", "click", "double_click"}, keys : {NotArray},
        path : [array : {TRUE}, items : {<<"p1">>}]]

\* the awaited calls of the case of the switch the action selects
DeviceCallsOf(action, platform) ==
  CASE action.type = "keypress" -> KeypressCalls(action.keys, platform)
    [] action.type = "drag" -> DragCalls(action.path)
    [] action.type = "move" -> MoveCalls(action.path.items[1])
    [] action.type = "click" -> ClickCalls(action.path.items[1])
    [] OTHER -> DoubleClickCalls(action.path.items[1])

\* updateCursorPosition and animateClick with no try/catch: a failing
\* page.evaluate reaches the caller
FeedbackThrows_Uncaught(ok) == ~ok

\* updateCursorPosition, animateClick: try { await page.evaluate(...) } catch {}
FeedbackThrows(ok) == FALSE

NoDeviceAction == [type |-> "none", keys |-> NotArray, path |-> NotArray]

\* the action handler: try { await this.injectCursor() } catch {}, and
\* injectCursor catches a failure itself; then executeAction enters the case of
\* the action
DeviceCallStart ==
  /\ dPc = "idle"
  /\ \E action \in DeviceActions, platform \in Platforms, ok \in BOOLEAN :
       /\ dAction' = action
       /\ dPlatform' = platform
       /\ dCursor' = IF ok THEN "injected" ELSE "failed"
       /\ IF FeedbackThrows(ok)
          THEN dPc' = "returned" /\ dResult' = "failure"
          ELSE dPc' = "running" /\ UNCHANGED dResult
  /\ UNCHANGED dEvents
  /\ UNCHANGED notDevice

\* the next awaited call resolves; a cursor call whose page.evaluate failed
\* (ok = FALSE) resolves as well
DeviceCallResolves ==
  /\ dPc = "running"
  /\ Len(dEvents) < Len(DeviceCallsOf(dAction, dPlatform))
  /\ LET call == DeviceCallsOf(dAction, dPlatform)[Len(dEvents) + 1]
     IN \E ok \in (IF call.dev = "cursor" THEN BOOLEAN ELSE {TRUE}) :
          IF call.dev = "cursor" /\ FeedbackThrows(ok)
          THEN /\ dPc' = "returned"
               /\ dResult' = "failure"
               /\ UNCHANGED dEvents
          ELSE /\ dEvents' = Append(dEvents, [call |-> call, ok |-> ok])
               /\ UNCHANGED <<dPc, dResult>>
  /\ UNCHANGED <<dAction, dPlatform, dCursor>>
  /\ UNCHANGED notDevice

\* the next keyboard or mouse call rejects: the catch block sets
\* result = {success: false, error}, the finally block and the recorder run
\* and executeAction returns
DeviceCallRejects ==
  /\ dPc = "running"
  /\ Len(dEvents) < Len(DeviceCallsOf(dAction, dPlatform))
  /\ DeviceCallsOf(dAction, dPlatform)[Len(dEvents) + 1].dev # "cursor"
  /\ dPc' = "returned"
  /\ dResult' = "failure"
  /\ UNCHANGED <<dAction, dPlatform, dEvents, dCursor>>
  /\ UNCHANGED notDevice

\* the case ends: result = {success: true}; executeAction returns
DeviceCaseEnds ==
  /\ dPc = "running"
  /\ Len(dEvents) = Len(DeviceCallsOf(dAction, dPlatform))
  /\ dPc' = "returned"
  /\ dResult' = "success"
  /\ UNCHANGED <<dAction, dPlatform, dEvents, dCursor>>
  /\ UNCHANGED notDevice

DeviceInit ==
  /\ dPc = "idle"
  /\ dAction = NoDeviceAction
  /\ dPlatform = "linux"
  /\ dEvents = <<>>
  /\ dResult = "pending"
  /\ dCursor = "none"

DeviceNext ==
  \/ DeviceCallStart
  \/ DeviceCallResolves
  \/ DeviceCallRejects
  \/ DeviceCaseEnds

(***************************************************************************)
(* fillInVariables                                                         *)
(***************************************************************************)
\* a text is a sequence of pieces: a word, or a placeholder
Placeholders == {"<|A|>", "<|B|>"}

TextPieces == {"w"} \cup Placeholders

\* `<|${key.toUpperCase()}|>`
PlaceholderOf(key) == IF ToUpperCase(key) = "A" THEN "<|A|>" ELSE "<|B|>"

\* the replacement string of String.prototype.replace: $& stands for the
\* matched substring
ExpandReplacement(value, matched) ==
  [k \in 1..Len(value) |-> IF value[k] = "$&" THEN matched ELSE value[k]]

\* text.replace(placeholder, value) with a string pattern: the first
\* occurrence only
ReplaceFirst(text, placeholder, value) ==
  LET found == {i \in 1..Len(text) : text[i] = placeholder}
  IN IF found = {} THEN text
     ELSE LET first == CHOOSE i \in found : \A j \in found : i <= j
          IN SubSeq(text, 1, first - 1) \o ExpandReplacement(value, placeholder)
               \o SubSeq(text, first + 1, Len(text))

VariableKeys == {"a", "B"}

VariableValues == {<<"x">>, <<>>, <<"<|B|>">>, <<"$&">>}

\* Object.entries(variables): the keys of an object are distinct
VariableEntries ==
  {es \in SeqsUpTo([key : VariableKeys, value : VariableValues], MaxVars) :
     \A i, j \in 1..Len(es) : es[i].key = es[j].key => i = j}

\* fillInVariables(text, variables): let processedText = text
FillCall ==
  /\ fPc = "idle"
  /\ \E text \in SeqsUpTo(TextPieces, MaxText), variables \in VariableEntries :
       /\ fText' = text
       /\ fVariables' = variables
       /\ fProcessed' = text
  /\ fI' = 0
  /\ fPc' = "running"
  /\ UNCHANGED notFill

\* one round of the forEach over the entries
FillReplace ==
  /\ fPc = "running"
  /\ fI < Len(fVariables)
  /\ fProcessed' = ReplaceFirst(fProcessed, PlaceholderOf(fVariables[fI + 1].key),
                                fVariables[fI + 1].value)
  /\ fI' = fI + 1
  /\ UNCHANGED <<fPc, fText, fVariables>>
  /\ UNCHANGED notFill

\* return processedText
FillReturn ==
  /\ fPc = "running"
  /\ fI = Len(fVariables)
  /\ fPc' = "returned"
  /\ UNCHANGED <<fText, fVariables, fI, fProcessed>>
  /\ UNCHANGED notFill

FillInit ==
  /\ fPc = "idle"
  /\ fText = <<>>
  /\ fVariables = <<>>
  /\ fI = 0
  /\ fProcessed = <<>>

FillNext ==
  \/ FillCall
  \/ FillReplace
  \/ FillReturn

(***************************************************************************)
(* Selector synthesis: generateSelector, getActiveElementSelector           *)
(***************************************************************************)
\* the characters of the attribute values of the documents
CharsOf ==
  ("email" :> <<"e", "m", "a", "i", "l">>) @@
  ("submit-btn" :> <<"s", "u", "b", "m", "i", "t", "-", "b", "t", "n">>) @@
  ("radix-:r3:" :> <<"r", "a", "d", "i", "x", "-", ":", "r", "3", ":">>) @@
  ("a:b" :> <<"a", ":", "b">>) @@
  ("btn-a1b2c3" :> <<"b", "t", "n", "-", "a", "1", "b", "2", "c", "3">>) @@
  ("123e4567-e89b-12d3-a456-426614174000" :> <<"1", "2", "3", "e", "4", "5", "6", "7", "-", "e", "8", "9", "b", "-", "1", "2", "d", "3", "-", "a", "4", "5", "6", "-", "4", "2", "6", "6", "1", "4", "1", "7", "4", "0", "0", "0">>) @@
  ("abcDEF123456" :> <<"a", "b", "c", "D", "E", "F", "1", "2", "3", "4", "5", "6">>) @@
  ("react-select" :> <<"r", "e", "a", "c", "t", "-", "s", "e", "l", "e", "c", "t">>) @@
  ("vue-x" :> <<"v", "u", "e", "-", "x">>) @@
  ("ng-1" :> <<"n", "g", "-", "1">>) @@
  ("L" :> <<"L">>) @@
  ("card" :> <<"c", "a", "r", "d">>) @@
  ("css-1a2b3c" :> <<"c", "s", "s", "-", "1", "a", "2", "b", "3", "c">>) @@
  ("hover:bg" :> <<"h", "o", "v", "e", "r", ":", "b", "g">>) @@
  ("_private12" :> <<"_", "p", "r", "i", "v", "a", "t", "e", "1", "2">>)

LowerLetters ==
  {"a", "b", "c", "d", "e", "f", "g", "h", "i", "j", "k", "l", "m", "n", "o", "p", "q",
   "r", "s", "t", "u", "v", "w", "x", "y", "z"}

UpperLetters ==
  {"A", "B", "C", "D", "E", "F", "G", "H", "I", "J", "K", "L", "M", "N", "O", "P", "Q",
   "R", "S", "T", "U", "V", "W", "X", "Y", "Z"}

Digits == {"0", "1", "2", "3", "4", "5", "6", "7", "8", "9"}

Letters == LowerLetters \cup UpperLetters

AlphaNum == Letters \cup Digits

\* [0-9a-f]
HexLower == Digits \cup {"a", "b", "c", "d", "e", "f"}

\* [0-9a-f] with the i flag
HexAnyCase == HexLower \cup {"A", "B", "C", "D", "E", "F"}

\* every character of cs[from..to] is in set
AllIn(cs, from, to, set) == \A i \in from..to : cs[i] \in set

\* cs starts with the characters of prefix
StartsWith(cs, prefix) ==
  /\ Len(cs) >= Len(prefix)
  /\ \A i \in 1..Len(prefix) : cs[i] = prefix[i]

\* /^[A-Za-z]+-[0-9a-f]{6,}$/
IsLettersDashHex(cs) ==
  \E dash \in 2..Len(cs) :
    /\ cs[dash] = "-"
    /\ AllIn(cs, 1, dash - 1, Letters)
    /\ Len(cs) - dash >= 6
    /\ AllIn(cs, dash + 1, Len(cs), HexLower)

\* /^[0-9a-f]{8}-[0-9a-f]{4}-[0-9a-f]{4}-[0-9a-f]{4}-[0-9a-f]{12}$/i
IsUuid(cs) ==
  /\ Len(cs) = 36
  /\ \A i \in 1..36 :
       IF i \in {9, 14, 19, 24} THEN cs[i] = "-" ELSE cs[i] \in HexAnyCase

\* /^[A-Za-z0-9]{12,}$/
IsLongToken(cs) ==
  /\ Len(cs) >= 12
  /\ AllIn(cs, 1, Len(cs), AlphaNum)

\* /^(react|vue|ng)-[A-Za-z0-9]+/
HasFrameworkPrefix(cs) ==
  \E prefix \in {<<"r", "e", "a", "c", "t", "-">>, <<"v", "u", "e", "-">>, <<"n", "g", "-">>} :
    /\ StartsWith(cs, prefix)
    /\ Len(cs) > Len(prefix)
    /\ cs[Len(prefix) + 1] \in AlphaNum

\* isLikelyDynamicId(id) that takes every id for stable
IsLikelyDynamicId_Never(id) == FALSE

\* isLikelyDynamicId(id)
IsLikelyDynamicId(id) ==
  LET cs == CharsOf[id]
  IN \/ \E i \in 1..Len(cs) : cs[i] = ":"
     \/ StartsWith(cs, <<"r", "a", "d", "i", "x", "-">>)
     \/ IsLettersDashHex(cs)
     \/ IsUuid(cs)
     \/ IsLongToken(cs)
     \/ HasFrameworkPrefix(cs)

\* isLikelyDynamicClass(cls)
IsLikelyDynamicClass(cls) ==
  LET cs == CharsOf[cls]
      n == Len(cs)
  IN \/ \E i \in 1..n : cs[i] = ":"
     \/ n > 15 /\ AllIn(cs, 1, n, LowerLetters \cup Digits)
     \/ \E i \in 1..(n - 1) : cs[i] \in Digits /\ cs[i + 1] \in Digits
     \/ /\ StartsWith(cs, <<"c", "s", "s", "-">>)
        /\ n - 4 >= 6
        /\ AllIn(cs, 5, n, HexAnyCase)
     \/ \E dash \in 2..n :
          /\ cs[dash] = "-"
          /\ AllIn(cs, 1, dash - 1, LowerLetters)
          /\ n - dash >= 6
          /\ AllIn(cs, dash + 1, n, AlphaNum)
     \/ \E prefix \in {<<"n", "g", "-">>, <<"v", "u", "e", "-">>, <<"j", "s", "x", "-">>,
                       <<"a", "s", "t", "r", "o", "-">>,
                       <<"s", "t", "y", "l", "e", "d", "-">>} : StartsWith(cs, prefix)
     \/ StartsWith(cs, <<"_">>) /\ n > 8

\* an element of the document: tag, index of the parent (0 is document.body)
\* and the attributes the synthesizer reads
Element(tag, parent, testid, id, label, name, cls, text) ==
  [tag |-> tag, parent |-> parent, testid |-> testid, id |-> id, label |-> label,
   name |-> name, cls |-> cls, text |-> text]

\* document.body, element 0 of every document
BodyElement == Element("body", -1, "", "", "", "", "", "")

\* document.documentElement, the parent of document.body
HtmlElement == Element("html", -2, "", "", "", "", "", "")

\* the element with index e of document doc
ElementAt(doc, e) == IF e = 0 THEN BodyElement ELSE IF e < 0 THEN HtmlElement ELSE doc[e]

\* element.getAttribute(attr); no element of the documents has a role attribute
AttrOf(el, attr) ==
  CASE attr = "data-testid" -> el.testid
    [] attr = "id" -> el.id
    [] attr = "aria-label" -> el.label
    [] attr = "name" -> el.name
    [] attr = "class" -> el.cls
    [] attr = "text()" -> el.text
    [] OTHER -> ""

RECURSIVE AncestorsOf(_, _)
\* the ancestors of element e inside the document, document.body included
AncestorsOf(doc, e) ==
  IF e <= 0 THEN {} ELSE {doc[e].parent} \cup AncestorsOf(doc, doc[e].parent)

\* parent.children of element e, filtered by tag name when sameTag
SiblingsOf(doc, e, sameTag) ==
  IF e <= 0
    THEN {e}
    ELSE {s \in 1..Len(doc) :
            /\ doc[s].parent = doc[e].parent
            /\ sameTag => doc[s].tag = doc[e].tag}

\* siblings.indexOf(element) + 1
IndexAmong(doc, e, sameTag) == Cardinality({s \in SiblingsOf(doc, e, sameTag) : s <= e})

\* element.textContent: the texts of the element and its descendants, in document order
TextContent(doc, e) ==
  LET Texts[i \in 0..Len(doc)] ==
        IF i = 0
          THEN <<>>
          ELSE IF (i = e \/ e \in AncestorsOf(doc, i)) /\ doc[i].text # ""
                 THEN Texts[i - 1] \o <<doc[i].text>>
                 ELSE Texts[i - 1]
  IN Texts[Len(doc)]

\* one compound selector with the combinator that precedes it
Segment(comb, tag, conds, nth, index) ==
  [comb |-> comb, tag |-> tag, conds |-> conds, nth |-> nth, index |-> index]

\* the null result
NoSelector == [kind |-> "null", segs |-> <<>>]

\* a CSS selector of the given compound selectors
Css(segs) == [kind |-> "css", segs |-> segs]

\* //tag[contains(text(), "text")]
XPath(tag, text) ==
  [kind |-> "xpath", segs |-> <<Segment("", tag, {<<"text()", text>>}, "", 0)>>]

\* `${ancestor} ${leaf}`
Descendant(ancestor, leaf) ==
  Css(ancestor.segs \o <<[leaf.segs[1] EXCEPT !.comb = " "]>> \o Tail(leaf.segs))

\* element e matches the compound selector seg
MatchesSegment(doc, e, seg) ==
  LET el == ElementAt(doc, e)
  IN /\ seg.tag \in {"", el.tag}
     /\ \A cond \in seg.conds : AttrOf(el, cond[1]) = cond[2]
     /\ seg.nth = "of-type" => IndexAmong(doc, e, TRUE) = seg.index
     /\ seg.nth = "child" => IndexAmong(doc, e, FALSE) = seg.index

RECURSIVE Matches(_, _, _, _)
\* element e matches the first k compound selectors of segs, the k-th on e itself
Matches(doc, e, segs, k) ==
  /\ MatchesSegment(doc, e, segs[k])
  /\ k > 1 =>
       IF segs[k].comb = ">"
         THEN e > 0 /\ Matches(doc, doc[e].parent, segs, k - 1)
         ELSE \E a \in AncestorsOf(doc, e) : Matches(doc, a, segs, k - 1)

\* document.querySelectorAll(sel) throws: :has-text() is no CSS pseudo-class
IsInvalidCss(sel) == \E k \in 1..Len(sel.segs) : sel.segs[k].nth = "has-text"

\* document.querySelectorAll(sel), or every node the XPath selects
QuerySelectorAll(doc, sel) ==
  {e \in 0..Len(doc) : sel.kind # "null" /\ Matches(doc, e, sel.segs, Len(sel.segs))}

\* isSelectorUnique(sel, targetElement)
IsSelectorUnique(doc, sel, e, timedOut) ==
  /\ ~timedOut
  /\ ~IsInvalidCss(sel)
  /\ QuerySelectorAll(doc, sel) = {e}

\* the tiers tried from the last to the first: the last selector of candidates
\* that isSelectorUnique accepts
FirstUnique_LowestTier(doc, candidates, e, timedOut) ==
  LET unique == {i \in 1..Len(candidates) : IsSelectorUnique(doc, candidates[i], e, timedOut)}
  IN IF unique = {}
       THEN NoSelector
       ELSE candidates[CHOOSE i \in unique : \A j \in unique : i >= j]

\* the first selector of candidates that isSelectorUnique accepts
FirstUnique(doc, candidates, e, timedOut) ==
  LET unique == {i \in 1..Len(candidates) : IsSelectorUnique(doc, candidates[i], e, timedOut)}
  IN IF unique = {}
       THEN NoSelector
       ELSE candidates[CHOOSE i \in unique : \A j \in unique : i <= j]

\* the selectors buildElementSelector (fn = "generate") and
\* buildActiveElementSelector (fn = "active") try for element e, tier by tier;
\* attribute values are kept as they are: what cssEscape writes parses back to
\* the value it was given
TierCandidates(doc, e, forbidAncestor, fn) ==
  LET el == ElementAt(doc, e)
      One(tag, attr, val) == <<Css(<<Segment("", tag, {<<attr, val>>}, "", 0)>>)>>
      accessibleName ==
        IF el.label # "" THEN <<el.label>> ELSE TextContent(doc, e)
      testAttr == IF el.testid # "" THEN One("", "data-testid", el.testid) ELSE <<>>
      stableId ==
        IF el.id # "" /\ ~IsLikelyDynamicId(el.id) THEN One("", "id", el.id) ELSE <<>>
      roleLabel ==
        IF accessibleName # <<>> /\ el.label # ""
          THEN <<Css(<<Segment("", "", {<<"role", el.tag>>, <<"aria-label", el.label>>}, "", 0)>>)>>
          ELSE <<>>
      roleName ==
        IF accessibleName = <<>>
          THEN <<>>
          ELSE IF fn = "generate"
                 THEN IF el.tag \in {"button", "a"}
                        THEN <<Css(<<Segment("", el.tag, {}, "has-text", 0)>>)>>
                        ELSE <<>>
                 ELSE IF el.tag \in {"input", "button"} /\ Len(accessibleName) = 1
                        THEN One(el.tag, "aria-label", accessibleName[1])
                        ELSE <<>>
      formAttr == IF el.name # "" THEN One(el.tag, "name", el.name) ELSE <<>>
      ariaAttr ==
        IF el.label # "" /\ ~IsLikelyDynamicId(el.label)
          THEN One(el.tag, "aria-label", el.label)
          ELSE <<>>
      stableClass ==
        IF el.cls # "" /\ ~IsLikelyDynamicClass(el.cls) THEN One(el.tag, "class", el.cls) ELSE <<>>
      positional ==
        IF ~forbidAncestor /\ Cardinality(SiblingsOf(doc, e, TRUE)) > 1
          THEN <<Css(<<Segment("", el.tag, {}, "of-type", IndexAmong(doc, e, TRUE))>>)>>
          ELSE <<>>
  IN testAttr \o stableId \o roleLabel \o roleName \o formAttr \o ariaAttr
       \o stableClass \o positional

\* buildElementSelector(element, options), buildActiveElementSelector(element, options)
BuildElementSelector(doc, e, forbidAncestor, fn, timedOut) ==
  FirstUnique(doc, TierCandidates(doc, e, forbidAncestor, fn), e, timedOut)

\* findStableAncestor: the nearest stable ancestor of element e below document.body,
\* 0 when there is none
FindStableAncestor(doc, e, fn, timedOut) ==
  LET semanticTags ==
        {"main", "nav", "header", "footer", "section", "article", "aside"}
          \cup (IF fn = "active" THEN {"form"} ELSE {})
      stable == {a \in AncestorsOf(doc, e) \ {0} :
                   \/ doc[a].testid # ""
                   \/ doc[a].id # "" /\ ~IsLikelyDynamicId(doc[a].id)
                   \/ doc[a].tag \in semanticTags}
  IN IF timedOut \/ stable = {}
       THEN 0
       ELSE CHOOSE a \in stable : \A b \in stable : b <= a

RECURSIVE PathTo(_, _, _, _, _)
\* the compound selectors from element e up to (not including) element stop, at most
\* limit of them, joined with " > ": tag:nth-child(i) when nth = "child", else
\* tag:nth-of-type(i), or the bare tag for an only sibling of its type when bareOnly
PathTo(doc, e, stop, limit, mode) ==
  IF e <= 0 \/ e = stop \/ limit = 0
    THEN <<>>
    ELSE LET upper == PathTo(doc, doc[e].parent, stop, limit - 1, mode)
             bare == mode = "bare" /\ Cardinality(SiblingsOf(doc, e, TRUE)) = 1
             seg == Segment(IF upper = <<>> THEN "" ELSE ">", doc[e].tag, {},
                            IF bare THEN "" ELSE IF mode = "child" THEN "child" ELSE "of-type",
                            IF bare THEN 0 ELSE IndexAmong(doc, e, mode # "child"))
         IN upper \o <<seg>>

\* the last n compound selectors of path as a selector of their own
LastSegments(path, n) ==
  LET from == Len(path) - n + 1
  IN Css([i \in 1..n |-> IF i = 1 THEN [path[from] EXCEPT !.comb = ""] ELSE path[from + i - 1]])

\* Strategy 2: the combined selector, then the positional path below the ancestor
AncestorStrategy(doc, e, fn, timedOut) ==
  LET ancestor == FindStableAncestor(doc, e, fn, timedOut)
      ancestorSelector == BuildElementSelector(doc, ancestor, FALSE, fn, timedOut)
      leafSelector == BuildElementSelector(doc, e, TRUE, fn, timedOut)
      path == IF timedOut THEN <<>> ELSE PathTo(doc, e, ancestor, Len(doc), "of-type")
      candidates ==
        (IF leafSelector # NoSelector THEN <<Descendant(ancestorSelector, leafSelector)>> ELSE <<>>)
          \o (IF path # <<>> THEN <<Descendant(ancestorSelector, Css(path))>> ELSE <<>>)
  IN IF ancestor = 0 \/ timedOut \/ ancestorSelector = NoSelector
       THEN NoSelector
       ELSE FirstUnique(doc, candidates, e, timedOut)

\* Strategy 3 of generateSelector, Strategy 4 of getActiveElementSelector: the
\* shortest unique tail of the nth-of-type path, at most limit compound selectors
PathStrategy(doc, e, limit, timedOut) ==
  LET path == PathTo(doc, e, 0, limit, "bare")
  IN IF timedOut
       THEN NoSelector
       ELSE FirstUnique(doc, [n \in 1..Len(path) |-> LastSegments(path, n)], e, timedOut)

\* path limit of Strategy 3 of generateSelector
NthOfTypePathLimit == 10

\* path limit of Strategy 4 of generateSelector
NthChildPathLimit == 15

\* path limit of Strategy 4 of getActiveElementSelector
ActivePathLimit == 8

\* Strategy 4 of generateSelector: `body > ` and the nth-child path, unchecked
NthChildFallback(doc, e, timedOut) ==
  LET path == PathTo(doc, e, 0, NthChildPathLimit, "child")
  IN IF timedOut \/ path = <<>>
       THEN NoSelector
       ELSE Css(<<Segment("", "body", {}, "", 0), [path[1] EXCEPT !.comb = ">"]>> \o Tail(path))

\* Strategy 3 of getActiveElementSelector: the XPath on the text of the element,
\* kept when its first match in document order is the element
TextStrategy(doc, e) ==
  LET text == TextContent(doc, e)
      xpath == XPath(doc[e].tag, text[1])
      matches == QuerySelectorAll(doc, xpath)
  IN IF /\ Len(text) = 1
        /\ doc[e].tag \in {"button", "a", "label", "span"}
        /\ matches # {}
        /\ e = (CHOOSE m \in matches : \A o \in matches : m <= o)
       THEN xpath
       ELSE NoSelector

\* the first selector of the sequence that is not null
FirstFound(selectors) ==
  LET found == {i \in 1..Len(selectors) : selectors[i] # NoSelector}
  IN IF found = {} THEN NoSelector ELSE selectors[CHOOSE i \in found : \A j \in found : i <= j]

\* the callback of generateSelector for the element e at the point; the time budget
\* runs out on entering strategy number deadline
GenerateSelectorOf(doc, e, deadline) ==
  FirstFound(<<BuildElementSelector(doc, e, FALSE, "generate", deadline <= 1),
               AncestorStrategy(doc, e, "generate", deadline <= 2),
               PathStrategy(doc, e, NthOfTypePathLimit, deadline <= 3),
               NthChildFallback(doc, e, deadline <= 4)>>)

\* the callback of getActiveElementSelector for the active element e
ActiveElementSelectorOf(doc, e, deadline) ==
  IF e = 0
    THEN Css(<<Segment("", "body", {}, "", 0)>>)
    ELSE FirstFound(<<BuildElementSelector(doc, e, FALSE, "active", deadline <= 1),
                      AncestorStrategy(doc, e, "active", deadline <= 2),
                      TextStrategy(doc, e),
                      PathStrategy(doc, e, ActivePathLimit, deadline <= 4),
                      Css(<<Segment("", doc[e].tag, {}, "", 0)>>)>>)

\* a div without attributes or text
PlainDiv(parent) == Element("div", parent, "", "", "", "", "", "")

\* the elements a document is assembled from, as children of parent
ElementKinds(parent) ==
  {PlainDiv(parent),
   Element("nav", parent, "", "", "", "", "", ""),
   Element("button", parent, "", "", "", "", "", "OK"),
   Element("button", parent, "", "", "L", "", "", ""),
   Element("input", parent, "", "", "", "q", "", ""),
   Element("div", parent, "save", "", "", "", "", ""),
   Element("div", parent, "", "email", "", "", "", ""),
   Element("div", parent, "", "radix-:r3:", "", "", "", ""),
   Element("div", parent, "", "", "", "", "card", ""),
   Element("button", parent, "save", "email", "L", "q", "card", "OK")}

\* ids and classes of every generated form, carried by the first element only
GeneratedKinds ==
  {Element("div", 0, "", id, "", "", "", "") :
     id \in {"a:b", "btn-a1b2c3", "123e4567-e89b-12d3-a456-426614174000", "abcDEF123456",
             "react-select", "vue-x", "ng-1"}}
    \cup {Element("div", 0, "", "", "", "", cls, "") : cls \in {"css-1a2b3c", "hover:bg"}}

\* the deadlines of a call: on entering strategy 1..4, or never (5)
Deadlines == 1..5

\* the page gains an element, below document.body or below its last element
SelInput ==
  /\ sPc = "idle"
  /\ Len(sDoc) < MaxDomElements
  /\ \E parent \in {0, Len(sDoc)} :
       \E el \in ElementKinds(parent) \cup (IF sDoc = <<>> THEN GeneratedKinds ELSE {}) :
         sDoc' = Append(sDoc, el)
  /\ UNCHANGED <<sPc, sFn, sTarget, sDeadline, sResult>>
  /\ UNCHANGED notSelector

\* the page nests one more plain div inside a chain of plain divs
SelNest ==
  /\ sPc = "idle"
  /\ Len(sDoc) < MaxDepth
  /\ \A i \in 1..Len(sDoc) : sDoc[i] = PlainDiv(i - 1)
  /\ sDoc' = Append(sDoc, PlainDiv(Len(sDoc)))
  /\ UNCHANGED <<sPc, sFn, sTarget, sDeadline, sResult>>
  /\ UNCHANGED notSelector

\* generateSelector(x, y) with an element at the point
GenerateSelector ==
  /\ sPc = "idle"
  /\ \E e \in 0..Len(sDoc), deadline \in Deadlines :
       /\ sTarget' = e
       /\ sDeadline' = deadline
       /\ sResult' = GenerateSelectorOf(sDoc, e, deadline)
  /\ sFn' = "generate"
  /\ sPc' = "returned"
  /\ UNCHANGED sDoc
  /\ UNCHANGED notSelector

\* generateSelector(x, y) when document.elementFromPoint(x, y) is null
GenerateSelectorNoElement ==
  /\ sPc = "idle"
  /\ sTarget' = -1
  /\ sResult' = NoSelector
  /\ sFn' = "generate"
  /\ sPc' = "returned"
  /\ UNCHANGED <<sDoc, sDeadline>>
  /\ UNCHANGED notSelector

\* getActiveElementSelector(); without a focused element document.body is the active one
GetActiveElementSelector ==
  /\ sPc = "idle"
  /\ \E e \in 0..Len(sDoc), deadline \in Deadlines :
       /\ sTarget' = e
       /\ sDeadline' = deadline
       /\ sResult' = ActiveElementSelectorOf(sDoc, e, deadline)
  /\ sFn' = "active"
  /\ sPc' = "returned"
  /\ UNCHANGED sDoc
  /\ UNCHANGED notSelector

\* page.evaluate rejects: both functions log the error and return null
SelEvaluateThrows ==
  /\ sPc = "idle"
  /\ \E fn \in {"generate", "active"} : sFn' = fn
  /\ sResult' = NoSelector
  /\ sPc' = "failed"
  /\ UNCHANGED <<sDoc, sTarget, sDeadline>>
  /\ UNCHANGED notSelector

SelectorInit ==
  /\ sPc = "idle"
  /\ sDoc = <<>>
  /\ sFn = "none"
  /\ sTarget = -1
  /\ sDeadline = 5
  /\ sResult = NoSelector

SelectorNext ==
  \/ SelInput
  \/ SelNest
  \/ GenerateSelector
  \/ GenerateSelectorNoElement
  \/ GetActiveElementSelector
  \/ SelEvaluateThrows

(***************************************************************************)
(* Specifications                                                          *)
(***************************************************************************)
ActNext == ActCall \/ ActRespond \/ ActClientThrows

VerifyNext == VerifyCall \/ VerifyRespond \/ VerifyClientThrows

ExtractNext ==
  \/ ExtractCall
  \/ ExtractStageRespond
  \/ RefineStageRespond
  \/ MetadataStageRespond
  \/ ExtractClientThrows

ObserveNext == ObserveCall \/ ObserveRespond \/ ObserveClientThrows

TreeNext ==
  \/ TreeInput
  \/ TreeFilterPass
  \/ TreeLinkPass
  \/ TreeRootPass
  \/ TreeCleanPass
  \/ TreeFormatPass

AxNext ==
  \/ AxCall
  \/ AxFindScrollables
  \/ AxFetchTree
  \/ AxEnrichNode
  \/ AxBuild
  \/ AxFinally

ExecNext ==
  \/ EBeforeScreenshot
  \/ EClick
  \/ EClickAfterRace
  \/ EClickCloseTab
  \/ EClickGoto
  \/ EClickWaitForURL
  \/ EDispatchOther
  \/ EAfterScreenshot
  \/ ERecordAction

HandlerNext ==
  \/ ExecuteCall
  \/ AgentRequestAction
  \/ HandlerResume
  \/ AgentSettles
  \/ SaveRecordedActions
  \/ ExecNext
  \/ NewPageEvent
  \/ RaceTimeout

Init ==
  /\ ActInit /\ VerifyInit /\ ExtractInit /\ ObserveInit /\ TreeInit /\ AxInit
  /\ PageInit /\ SessionInit /\ ExecInit /\ MethodInit /\ SelectorInit
  /\ replay = NoReplay
  /\ DeviceInit
  /\ FillInit

Spec == Init /\ [][HandlerNext]_vars

MethodNext ==
  \/ MCall
  \/ MDispatch
  \/ MAfterRace
  \/ MCloseTab
  \/ MGoto
  \/ MWaitLoaded
  \/ MNetworkIdleSettles
  \/ NetIdleTimeout
  \/ MSettled

DispatchNext ==
  \/ ECall
  \/ ESettled
  \/ ExecNext
  \/ MethodNext
  \/ NewPageEvent
  \/ RaceTimeout

SpecDispatch == Init /\ [][DispatchNext]_vars

\* the two click paths alone
ClickNext ==
  \/ EClickCall
  \/ ESettled
  \/ EBeforeScreenshot
  \/ EClick
  \/ EClickAfterRace
  \/ EClickCloseTab
  \/ EClickGoto
  \/ EClickWaitForURL
  \/ EAfterScreenshot
  \/ ERecordAction
  \/ MethodNext
  \/ NewPageEvent
  \/ RaceTimeout

SpecClick == Init /\ [][ClickNext]_vars

\* Timers fire, and a continuation whose promise has settled runs. Nothing is
\* assumed of the browser's events or of the completion of driver calls.
ClickFairness ==
  /\ WF_vars(RaceTimeout)
  /\ WF_vars(NetIdleTimeout)
  /\ WF_vars(EClickAfterRace)
  /\ WF_vars(MAfterRace)

FairSpecClick == SpecClick /\ ClickFairness

SpecAct == Init /\ [][ActNext]_vars

\* every createChatCompletion call settles: it resolves or it rejects
ModelClientSettles == WF_vars(ActRespond \/ ActClientThrows)

SpecActFair == Init /\ [][ActNext]_vars /\ ModelClientSettles

SpecVerify == Init /\ [][VerifyNext]_vars

SpecExtract == Init /\ [][ExtractNext]_vars

SpecObserve == Init /\ [][ObserveNext]_vars

\* the page plays no part in the pure components: it starts on the blank page
BlankInit == Init /\ pageUrl = BlankUrl

\* The four inference calls, one call per run (the others stay idle), each
\* followed by the same call with logInferenceToFile flipped.
OthersIdle(pcs) == \A pc \in pcs : pc = "idle"

FirstActCall == OthersIdle({vPc, xPc, oPc}) /\ ActCall

FirstVerifyCall == OthersIdle({actPc, xPc, oPc}) /\ VerifyCall

FirstExtractCall == OthersIdle({actPc, vPc, oPc}) /\ ExtractCall

FirstObserveCall == OthersIdle({actPc, vPc, xPc}) /\ ObserveCall

InferenceNext ==
  \/ FirstActCall \/ ActRespond \/ ActClientThrows \/ ActAgain
  \/ FirstVerifyCall \/ VerifyRespond \/ VerifyClientThrows \/ VerifyAgain
  \/ FirstExtractCall \/ ExtractStageRespond \/ RefineStageRespond
  \/ MetadataStageRespond \/ ExtractClientThrows \/ ExtractAgain
  \/ FirstObserveCall \/ ObserveRespond \/ ObserveClientThrows \/ ObserveAgain

SpecInference == BlankInit /\ [][InferenceNext]_vars

SpecDevice == BlankInit /\ [][DeviceNext]_vars

SpecFill == BlankInit /\ [][FillNext]_vars

SpecTree == BlankInit /\ [][TreeNext]_vars

SpecAxTree == Init /\ [][AxNext]_vars

SpecSelector == BlankInit /\ [][SelectorNext]_vars

(***************************************************************************)
(* Claims                                                                  *)
(***************************************************************************)
\* a response without a tool call: tool_calls absent or an empty list
NoToolCallIn(response) == ~response.defined \/ response.calls = <<>>

\* a response whose first tool call is not the skip sentinel and carries
\* arguments that parse
ValidToolCallIn(response) ==
  /\ response.defined
  /\ response.calls # <<>>
  /\ response.calls[1].name # "skipSection"
  /\ response.calls[1].arguments \in {"{\"method\":\"click\"}", "{\"method\":\"fill\"}"}

\* C1: act called with retries = 0 keeps calling the model while the first two
\* responses carry no tool call; with a valid tool call in the third response it
\* returns that call's parsed arguments, and with no tool call in the third
\* response either it returns null.
C1_ActRetryBoundary ==
  actRetries0 = 0 =>
    /\ ( /\ Len(actResponses) \in {1, 2}
         /\ \A i \in 1..Len(actResponses) : NoToolCallIn(actResponses[i]) )
       => actPc \in {"calling", "threw"} /\ actResult \in {"pending", "ClientError"}
    /\ ( /\ Len(actResponses) = 3
         /\ NoToolCallIn(actResponses[1])
         /\ NoToolCallIn(actResponses[2])
         /\ ValidToolCallIn(actResponses[3]) )
       => /\ actPc = "returned"
          /\ actResult = JSONParse(actResponses[3].calls[1].arguments)
          /\ actResult \in {"obj:method=click", "obj:method=fill"}
    /\ ( /\ Len(actResponses) = 3
         /\ \A i \in 1..3 : NoToolCallIn(actResponses[i]) )
       => actPc = "returned" /\ actResult = "null"

C1_Witness ==
  /\ actRetries0 = 0
  /\ Len(actResponses) = 3
  /\ NoToolCallIn(actResponses[1])
  /\ NoToolCallIn(actResponses[2])
  /\ ValidToolCallIn(actResponses[3])
  /\ actPc = "returned"
  /\ actResult = "obj:method=fill"

\* C7: when getAccessibilityTree has returned or thrown after enabling the
\* Accessibility capability, it has invoked disableCDP exactly once, and the
\* capability is disabled again unless that disable command itself failed.
C7_AxDisabledAfterCapture ==
  (axPc \in {"returned", "threw"} /\ axEnableOk) =>
    /\ axDisableCalls = 1
    /\ (axDisableOk => ~axEnabled)

C7_Witness ==
  /\ axPc = "threw"
  /\ axEnableOk
  /\ axFailedAt = "build"
  /\ Len(axNodes) > 0
  /\ axDisableCalls = 1
  /\ ~axEnabled

RECURSIVE SumPrompt(_, _), SumCompletion(_, _), SumMs(_, _)
SumPrompt(stages, n) ==
  IF n = 0 THEN 0
  ELSE SumPrompt(stages, n - 1)
         + (IF stages[n].usage.defined THEN stages[n].usage.prompt_tokens ELSE 0)

SumCompletion(stages, n) ==
  IF n = 0 THEN 0
  ELSE SumCompletion(stages, n - 1)
         + (IF stages[n].usage.defined THEN stages[n].usage.completion_tokens ELSE 0)

SumMs(stages, n) ==
  IF n = 0 THEN 0 ELSE SumMs(stages, n - 1) + stages[n].ms

\* C9: the prompt_tokens, completion_tokens and inference_time_ms extract
\* returns are the sums of the values of its three staged calls, a stage with
\* no usage counting as 0.
C9_ExtractTotals ==
  xPc = "returned" =>
    /\ Len(xStages) = 3
    /\ xResult.prompt_tokens = SumPrompt(xStages, 3)
    /\ xResult.completion_tokens = SumCompletion(xStages, 3)
    /\ xResult.inference_time_ms = SumMs(xStages, 3)

C9_Witness ==
  /\ xPc = "returned"
  /\ ~xStages[1].usage.defined
  /\ xStages[2].usage.defined
  /\ xStages[3].usage.defined
  /\ xResult.prompt_tokens = 2
  /\ xResult.completion_tokens = 1
  /\ xResult.inference_time_ms = 3

\* C10: a model response whose data is {} (an object without completed) makes
\* verifyActCompletion return completed = false; it does not throw.
C10_VerifyMissingCompletedIsFalse ==
  (vResponse.data.typeof = "object" /\ vResponse.data.completed = "undefined") =>
    /\ vPc = "returned"
    /\ vResult.completed = "false"

C10_Witness ==
  /\ vPc = "returned"
  /\ vResponse.data.typeof = "object"
  /\ vResponse.data.completed = "undefined"
  /\ vResult.completed = "false"

\* C2: a click (executeAction click, performPlaywrightMethod click) whose race
\* was resolved by a new-page event closes exactly one extra tab and navigates
\* the original page exactly once, to that page's URL, when the step runs to
\* its end without a driver error, and never closes or navigates more than
\* that; a click whose race resolved to null navigates and closes nothing.
ClickStepDone ==
  \/ ePc \in {"after_shot", "record", "returned"} /\ eAction.type = "click" /\ eError = ""
  \/ mPc \in {"netidle", "returned"} /\ mMethod = "click"

C2_ClickNewTab ==
  /\ (ClickStepDone /\ raceOutcome = "page") =>
       /\ tabsClosed = 1
       /\ navs = <<raceTab>>
       /\ pageUrl = raceTab
  /\ raceOutcome = "page" =>
       /\ tabsClosed <= 1
       /\ navs \in {<<>>, <<raceTab>>}
  /\ raceOutcome \in {"none", "null"} =>
       /\ tabsClosed = 0
       /\ navs = <<>>

C2_Witness ==
  /\ ClickStepDone
  /\ raceOutcome = "page"
  /\ tabsClosed = 1

\* C3: every executeAction call that has finished has invoked recordAction
\* exactly once.
C3_RecorderInvokedOnce ==
  ePc \in {"returned", "threw"} => eRecordCalls = 1

\* C4: a failing before-action or after-action screenshot does not make
\* executeAction throw, and the action is dispatched all the same.
C4_ScreenshotFailureIgnored ==
  /\ ePc # "threw"
  /\ (ePc = "returned" => eDispatched)
  /\ (eShotFailed # "none" => eDispatched)

\* C5: the log holds only entries recorded during the current session, all of
\* them, and so does every session file that has been written.
C5_LogOwnedBySession ==
  /\ \A i \in 1..Len(recordedActions) : recordedActions[i].session = sessionId
  /\ Len(recordedActions) = pushed[sessionId]
  /\ \A id \in 0..MaxSessions :
       files[id].written =>
         /\ \A i \in 1..Len(files[id].log) : files[id].log[i].session = id
         /\ Len(files[id].log) = pushed[id]

C5_Witness ==
  /\ sessionId = 2
  /\ pushed[1] > 0
  /\ files[2].written

\* C6: once a session has ended, by execute returning or throwing, the file of
\* a session that recorded at least one action has been written.
C6_EverySessionFlushed ==
  (hPc = "idle" /\ sessionId > 0 /\ pushed[sessionId] > 0) => files[sessionId].written

\* C8: the new-tab race of either click path and the network-idle race are
\* left once their timer has fired, whatever the browser emits: a click step
\* waiting in a race always gets past it.
C8_RacesResolve ==
  /\ (ePc = "race") ~> (ePc # "race")
  /\ (mPc = "race") ~> (mPc # "race")
  /\ (mPc = "netidle") ~> (mPc # "netidle")

C8_Witness ==
  /\ ePc = "race"
  /\ raceTimer = "fired"
  /\ raceOutcome = "null"


\* C11: when the completed field of the response is present but not a boolean,
\* verifyActCompletion returns completed = false.
C11_VerifyMalformedCompletedIsFalse ==
  (/\ vPc \in {"returned", "threw"}
   /\ vResponse.data.typeof = "object"
   /\ vResponse.data.completed \notin {"undefined", "true", "false"}) =>
    /\ vPc = "returned"
    /\ vResult.completed = "false"

\* C12: act, observe, extract and verifyActCompletion throw only when the
\* model client itself fails: a response with missing or malformed fields gives
\* a null, empty or false result.
C12_MalformedResponseNeverThrows ==
  /\ (actPc = "threw" => actResult = "ClientError")
  /\ (oPc = "threw" => oError = "ClientError")
  /\ (xPc = "threw" => Len(xStages) < 3)
  /\ (vPc = "returned" /\ VerifyUnexpectedFormat(vResponse.data) =>
        vResult.completed = "false")
  /\ (oPc = "returned" /\ oResponse.data.elements # "array" => oResult.elements = <<>>)

\* the nodes of a forest, at any depth
RECURSIVE NodesOf(_)
NodesOf(trees) ==
  IF trees = <<>> THEN {}
  ELSE {Head(trees)} \cup NodesOf(Head(trees).children) \cup NodesOf(Tail(trees))

\* C13: the tree buildHierarchicalTree returns holds, at any depth, no node
\* with a negative id and no generic or none node without children.
C13_TreeHasNoEmptyStructuralNode ==
  tPc \in {"format", "returned"} =>
    \A node \in NodesOf(tTree) :
      /\ node.nodeId >= 0
      /\ ~(IsStructural(node) /\ node.children = <<>>)

\* a subtree cleaning has nothing to do in: no structural node, no negative id
Settled(node) ==
  \A n \in NodesOf(<<node>>) : ~IsStructural(n) /\ n.nodeId >= 0

\* the cleaned forest with root k replaced by the sequence given
CleanedAround(k, replacement) ==
  CleanAll(SubSeq(tRoots, 1, k - 1)) \o replacement
    \o CleanAll(SubSeq(tRoots, k + 1, Len(tRoots)))

SingleChildStructural(node) ==
  IsStructural(node) /\ node.nodeId >= 0 /\ Len(node.children) = 1

C15_OrphansAreRoots ==
  tPc \in {"clean", "format", "returned"} =>
    \A i \in 1..Len(tNodes) :
      (/\ tNodes[i].nodeId \in tNodeMap
       /\ (tNodes[i].parentId = 0 \/ tNodes[i].parentId \notin tNodeMap)) =>
        \E k \in 1..Len(tRoots) : tRoots[k].nodeId = tNodes[i].nodeId

\* the nodes of a forest with their depth, depth first
RECURSIVE DepthFirst(_, _)
DepthFirst(trees, depth) ==
  IF trees = <<>> THEN <<>>
  ELSE <<[node |-> Head(trees), depth |-> depth]>>
         \o DepthFirst(Head(trees).children, depth + 1)
         \o DepthFirst(Tail(trees), depth)

\* one line per node: two spaces per level, `[nodeId] role`, `: name` if named
LinesOf(trees) ==
  LET visit == DepthFirst(trees, 0)
  IN [i \in 1..Len(visit) |->
        [indent |-> visit[i].depth + visit[i].depth, nodeId |-> visit[i].node.nodeId,
         role |-> visit[i].node.role, name |-> visit[i].node.name]]

\* the lines of each root's subtree, an empty line between two roots
RECURSIVE LinesOfRoots(_)
LinesOfRoots(trees) ==
  IF trees = <<>> THEN <<>>
  ELSE LinesOf(<<Head(trees)>>)
         \o (IF Tail(trees) = <<>> THEN <<>> ELSE <<BlankLine>>)
         \o LinesOfRoots(Tail(trees))

\* C16: simplified is the depth-first rendering of tree, one line per node with
\* two spaces of indent per level, with an empty line between the renderings
\* of two roots; it is determined by tree alone.
C16_SimplifiedRendersTree ==
  tPc = "returned" => tSimplified = LinesOfRoots(tTree)

C16_Witness ==
  /\ tPc = "returned"
  /\ Len(tTree) = 2
  /\ \E k \in 1..2 : tTree[k].children # <<>>

\* C16 as stated: simplified is the lines of the nodes and nothing else.
C16_SimplifiedIsOneLinePerNode ==
  tPc = "returned" => tSimplified = LinesOf(tTree)

\* C17: every selector generateSelector or getActiveElementSelector returns, when
\* re-queried against the same document, matches exactly one element, the target.
C17_ReturnedSelectorMatchesTargetOnly ==
  (sPc = "returned" /\ sResult # NoSelector) =>
    QuerySelectorAll(sDoc, sResult) = {sTarget}

\* ids of each generated form: with a colon, with the radix- prefix, letters and a
\* hex suffix, a UUID, a long alphanumeric token, a framework prefix
DynamicIdExamples ==
  {"radix-:r3:", "a:b", "btn-a1b2c3", "123e4567-e89b-12d3-a456-426614174000",
   "abcDEF123456", "react-select", "vue-x", "ng-1"}

\* C18: no selector returned for an element with a generated id is `#id`, and no
\* compound selector of a returned selector selects by a generated id; the element
\* with id radix-:r3: never gets #radix-:r3:.
C18_DynamicIdNeverSelected ==
  sPc = "returned" =>
    /\ \A k \in 1..Len(sResult.segs), id \in DynamicIdExamples :
         <<"id", id>> \notin sResult.segs[k].conds
    /\ sResult # Css(<<Segment("", "", {<<"id", "radix-:r3:">>}, "", 0)>>)

\* a selector was returned for a target whose id is radix-:r3:
C18_Witness ==
  /\ sPc = "returned"
  /\ sTarget >= 1
  /\ sDoc[sTarget].id = "radix-:r3:"
  /\ sResult # NoSelector

\* C19: with an element at the point, generateSelector returns a selector, whenever
\* the time budget runs out.
C19_GenerateSelectorNeverNull ==
  (sPc = "returned" /\ sFn = "generate" /\ sTarget >= 0) => sResult # NoSelector

\* the actions that reach the default case of the switch or the else branch of
\* case "function"
IsUnsupported(action) ==
  \/ action.type \notin SupportedTypes
  \/ action.type = "function" /\ ~IsNavigation(action)

\* C20: executeAction ends an unsupported action with success false and the error
\* that names it, performPlaywrightMethod ends an unsupported method with
\* PlaywrightCommandMethodNotSupportedException, and neither arms the new-tab race,
\* closes a tab or navigates.
C20_UnsupportedReportedAsFailure ==
  /\ (ePc \in {"returned", "threw"} /\ IsUnsupported(eAction)) =>
       /\ ePc = "returned"
       /\ eResult = FALSE
       /\ eError = (IF eAction.type = "function" THEN "Unsupported function"
                    ELSE "Unsupported action type")
  /\ (ePc # "idle" /\ IsUnsupported(eAction)) =>
       /\ ~raceListener /\ raceTimer = "off"
       /\ navs = <<>> /\ tabsClosed = 0
  /\ (mPc \in {"returned", "threw"} /\ ~IsLocatorMethod(mMethod)) =>
       /\ mPc = "threw"
       /\ mError = "PlaywrightCommandMethodNotSupportedException"
       /\ ~raceListener /\ raceTimer = "off" /\ netIdleTimer = "off"
       /\ navs = <<>> /\ tabsClosed = 0

\* C21: a browser command that fails in performPlaywrightMethod reaches the
\* caller as a PlaywrightCommandException with the message of the failure; the
\* call does not return normally.
C21_CommandFailureIsRaised ==
  (mPc \in {"returned", "threw"} /\ mFailure # "") =>
    /\ mPc = "threw"
    /\ mError = "PlaywrightCommandException"
    /\ mMessage = mFailure

\* C22: when the dispatch inside executeAction failed with a driver error, the
\* action handler does not resolve as it does for an action that succeeded.
C22_DriverErrorReachesClient ==
  hHandled.outcome = "resolved" => hHandled.error # "driver error"

\* C23: once goto, back, forward or reload has completed, the cached URL of the
\* agent client is the URL of the page after the navigation; a function action
\* with another name moves neither the page nor the cached URL.
C23_NavigationRefreshesClientUrl ==
  /\ [](ePc \in {"after_shot", "record", "returned"} /\ IsNavigation(eAction) /\ eResult
          => clientUrl = pageUrl)
  /\ [][(ePc = "dispatch" /\ eAction.type = "function" /\ ~IsNavigation(eAction))
          => (pageUrl' = pageUrl /\ clientUrl' = clientUrl /\ eResult' = FALSE)]_vars

\* a goto has completed and the cached URL is the URL it went to, not the one before
C23_Witness ==
  /\ ePc = "returned"
  /\ eAction.type = "function" /\ eAction.name = "goto"
  /\ eResult
  /\ clientUrl = eAction.url
  /\ pageUrl = eAction.url

\* the nodes the enrichment loop has dealt with
AxProcessed == 1..(IF axPc = "enrich" THEN axI - 1 ELSE Len(axNodes))

ActModelCalls ==
  Len(actResponses) +
    (IF actPc = "calling" \/ (actPc = "threw" /\ actResult = "ClientError") THEN 1 ELSE 0)

\* C26: act started with retries = 0 makes at most three model calls and always
\* terminates, whatever the model answers; each recursive retry increments the
\* counter by exactly one, and no retry is made once the counter has reached 2.
C26_ActTerminatesWithinThreeCalls ==
  /\ [](actRetries0 = 0 => ActModelCalls <= 3)
  /\ [][(actPc = "calling" /\ actRetries' # actRetries) =>
          (actRetries' = actRetries + 1 /\ actRetries < 2)]_vars
  /\ ((actRetries0 = 0 /\ actPc = "calling") ~> (actPc \in {"returned", "threw"}))

\* the third call, made with the counter at 2, got no tool call and act
\* returned without a fourth one
C26_Witness ==
  /\ actRetries0 = 0
  /\ actRetries = 2
  /\ actPc = "returned"
  /\ ActModelCalls = 3
  /\ ~HasToolCalls(actResponses[3])


\* C27: when the first tool call of a model response is skipSection, act
\* returns null at once, at any retry count: the arguments are not parsed (a
\* malformed argument text raises nothing) and no further model call is made.
C27_SkipSectionReturnsNull ==
  \A i \in 1..Len(actResponses) :
    (HasToolCalls(actResponses[i]) /\ actResponses[i].calls[1].name = "skipSection") =>
      /\ i = Len(actResponses)
      /\ actPc = "returned"
      /\ actResult = "null"

\* skipSection with an argument text that is not JSON, answered to a retry
C27_Witness ==
  /\ actPc = "returned"
  /\ actRetries = 1
  /\ Len(actResponses) = 2
  /\ HasToolCalls(actResponses[2])
  /\ actResponses[2].calls[1].name = "skipSection"
  /\ JSONParse(actResponses[2].calls[1].arguments) = "SyntaxError"
  /\ actResult = "null"


\* the names of the three model calls of extract, in order
ExtractStageOrder == <<"extract", "refine", "metadata">>

\* C28: extract issues its model calls in the order extract, refine, metadata,
\* each only after the previous one has resolved, and exactly three when it
\* returns; the refine request is built from the first call's data and the
\* previously extracted content, the metadata request from the refined data;
\* the returned value carries the fields of the refined data together with the
\* metadata object {completed, progress}.
C28_ExtractCallsInOrder ==
  /\ Len(xRequests) <= 3
  /\ \A i \in 1..Len(xRequests) : xRequests[i].name = ExtractStageOrder[i]
  /\ Len(xRequests) <= Len(xStages) + 1
  /\ \A i \in 1..Len(xStages) : xStages[i].name = ExtractStageOrder[i]
  /\ Len(xRequests) >= 2 =>
       xRequests[2].from =
         [previous |-> PreviouslyExtracted, extracted |-> xStages[1].data]
  /\ Len(xRequests) >= 3 => xRequests[3].from = [refined |-> xStages[2].data]
  /\ xPc = "returned" =>
       /\ Len(xRequests) = 3 /\ Len(xStages) = 3
       /\ xResult.data = (IF xStages[2].data = "undefined" THEN "{}" ELSE xStages[2].data)
       /\ xResult.completed = xStages[3].data
       /\ xResult.progress = xStages[3].progress

\* extract returned: the first call's data went into the refine request and
\* the refined data, which differs from it, into the result
C28_Witness ==
  /\ xPc = "returned"
  /\ xStages[1].data = "{a:1}"
  /\ xStages[2].data = "undefined"
  /\ xRequests[2].from.extracted = "{a:1}"
  /\ xResult.data = "{}"
  /\ xResult.completed = "true"


\* the phase of executeAction a position belongs to
PhaseOf(pc) ==
  CASE pc = "before_shot" -> "pre-screenshot"
    [] pc = "dispatch" -> "dispatch"
    [] pc \in {"race", "tab_close", "tab_goto", "tab_wait"} -> "post-effect"
    [] pc = "after_shot" -> "post-screenshot"
    [] pc = "record" -> "record"
    [] pc = "returned" -> "done"
    [] OTHER -> "none"

\* C29: an executeAction run takes its phases in the order pre-screenshot,
\* dispatch, post-effect handling, post-screenshot, record: a phase is entered
\* only from the phase before it (post-effect handling may be empty), the
\* dispatch and the post-effect handling are left only for the post-screenshot,
\* whether they succeeded or failed, and recordAction is invoked only after
\* the post-screenshot.
C29_PhasesInOrder ==
  [][ /\ PhaseOf(ePc') = "pre-screenshot" => PhaseOf(ePc) \in {"none", "done", "pre-screenshot"}
      /\ PhaseOf(ePc') = "dispatch" => PhaseOf(ePc) \in {"pre-screenshot", "dispatch"}
      /\ PhaseOf(ePc') = "post-effect" => PhaseOf(ePc) \in {"dispatch", "post-effect"}
      /\ PhaseOf(ePc') = "post-screenshot" =>
           PhaseOf(ePc) \in {"dispatch", "post-effect", "post-screenshot"}
      /\ PhaseOf(ePc) \in {"dispatch", "post-effect"} =>
           PhaseOf(ePc') \in {"dispatch", "post-effect", "post-screenshot"}
      /\ PhaseOf(ePc') = "record" => PhaseOf(ePc) \in {"post-screenshot", "record"}
      /\ PhaseOf(ePc') = "done" => PhaseOf(ePc) \in {"record", "done"}
      /\ eRecordCalls' > eRecordCalls => PhaseOf(ePc) = "record"
    ]_vars

\* a click whose new tab was closed and whose goto failed: the failure went
\* through the post-screenshot to the recorder
C29_Witness ==
  /\ ePc = "returned"
  /\ eAction.type = "click"
  /\ tabsClosed = 1
  /\ eError = "driver error"
  /\ eRecordCalls = 1


\* C30: for a double click as for a click, once the pointer events are
\* dispatched the executor races a timeout against a new-tab event, so the
\* race has resolved when the step is done, and when it resolved with a new
\* tab that tab has been closed and the original page navigated to its URL.
C30_DoubleClickRacesNewTab ==
  ( /\ eAction.type \in {"double_click", "doubleClick"}
    /\ ePc \in {"after_shot", "record", "returned"}
    /\ eError = "" ) =>
      /\ raceOutcome \in {"page", "null"}
      /\ raceOutcome = "page" =>
           /\ tabsClosed = 1
           /\ navs = <<raceTab>>
           /\ pageUrl = raceTab


\* the action is a keypress whose keys contain a modifier
IsCombination ==
  /\ dAction.type = "keypress"
  /\ dAction.keys.array
  /\ \E i \in 1..Len(dAction.keys.items) : dAction.keys.items[i] \in {"CTRL", "CMD"}

C32_KeyNamesArePlatformAware ==
  (dAction.type = "keypress" /\ dAction.keys.array) =>
    \A i \in 1..Len(dEvents) :
      (i <= Len(dAction.keys.items) /\ dEvents[i].call.op \in {"down", "press"}) =>
        LET key == dAction.keys.items[i]
            sent == dEvents[i].call.arg
        IN /\ key = "CTRL" => sent = (IF dPlatform = "darwin" THEN "Meta" ELSE "Control")
           /\ key = "CMD" => sent = "Meta"
           /\ key = "ENTER" => sent = "Enter"
           /\ key = "ARROW_UP" => sent = "ArrowUp"

\* the call the drag of the path issues in position j
ExpectedDragCall(points, j) ==
  IF j = 3 THEN [dev |-> "mouse", op |-> "down", arg |-> ""]
  ELSE IF j = 2 * Len(points) + 2 THEN [dev |-> "mouse", op |-> "up", arg |-> ""]
  ELSE IF j = 1 THEN [dev |-> "cursor", op |-> "update", arg |-> points[1]]
  ELSE IF j = 2 THEN [dev |-> "mouse", op |-> "move", arg |-> points[1]]
  ELSE IF j % 2 = 0 THEN [dev |-> "cursor", op |-> "update", arg |-> points[j \div 2]]
  ELSE [dev |-> "mouse", op |-> "move", arg |-> points[j \div 2]]

\* C33: a drag along a path of at least two points moves the mouse to the
\* first point and presses there, then moves through each later point in path
\* order, the cursor state updated before each move, and releases once after
\* the last point (all of it when the mouse calls resolve); a path of fewer
\* than two points issues no press, move or release.
C33_DragFollowsPath ==
  dAction.type = "drag" =>
    IF dAction.path.array /\ Len(dAction.path.items) >= 2
    THEN /\ Len(dEvents) <= 2 * Len(dAction.path.items) + 2
         /\ \A j \in 1..Len(dEvents) :
              dEvents[j].call = ExpectedDragCall(dAction.path.items, j)
         /\ dResult = "success" => Len(dEvents) = 2 * Len(dAction.path.items) + 2
    ELSE dEvents = <<>>

\* a drag through three points has returned
C33_Witness ==
  /\ dPc = "returned"
  /\ dResult = "success"
  /\ dAction.type = "drag"
  /\ dAction.path.items = <<"p1", "p3", "p2">>
  /\ Len(dEvents) = 8
  /\ dEvents[5].call = [dev |-> "mouse", op |-> "move", arg |-> "p3"]
  /\ dEvents[7].call = [dev |-> "mouse", op |-> "move", arg |-> "p2"]
  /\ dEvents[8].call.op = "up"

\* C36: a failure of the cursor feedback (injection, position update, click
\* animation) never changes the outcome of the action: the action fails only
\* at a keyboard or mouse call, and after failed feedback the keyboard and
\* mouse calls are still issued and the result is success when they resolve.
C36_FeedbackFailureIsIgnored ==
  /\ dResult = "failure" =>
       /\ dPc = "returned"
       /\ Len(dEvents) < Len(DeviceCallsOf(dAction, dPlatform))
       /\ DeviceCallsOf(dAction, dPlatform)[Len(dEvents) + 1].dev \in {"keyboard", "mouse"}
  /\ (dPc = "returned" /\ dResult = "success") =>
       \A i \in 1..Len(DeviceCallsOf(dAction, dPlatform)) :
         /\ i <= Len(dEvents)
         /\ dEvents[i].call = DeviceCallsOf(dAction, dPlatform)[i]

\* the injection, the position update and the animation all failed, and the
\* click was dispatched and succeeded
C36_Witness ==
  /\ dPc = "returned"
  /\ dResult = "success"
  /\ dAction.type = "click"
  /\ dCursor = "failed"
  /\ ~dEvents[1].ok
  /\ ~dEvents[2].ok
  /\ dEvents[3].call.op = "click"

\* keyboard.down(key) or mouse.down() calls not yet followed by their up
HeldCount(dev, arg) ==
  Cardinality({i \in 1..Len(dEvents) :
                 dEvents[i].call = [dev |-> dev, op |-> "down", arg |-> arg]})
  - Cardinality({i \in 1..Len(dEvents) :
                   dEvents[i].call = [dev |-> dev, op |-> "up", arg |-> arg]})

\* C38: when executeAction returns, on success or on failure of a step of the
\* dispatch, no key and no mouse button pressed by the action is still held.
C38_NothingHeldOnReturn ==
  dPc = "returned" =>
    /\ HeldCount("mouse", "") = 0
    /\ \A key \in {"Meta", "Control", "Enter", "ARROW_UP", "a"} :
         HeldCount("keyboard", key) = 0


C35_NoPlaceholderLeft ==
  fPc = "returned" =>
    /\ \A i \in 1..Len(fVariables) :
         (\A k \in 1..Len(fVariables[i].value) : fVariables[i].value[k] \notin Placeholders) =>
           \A j \in 1..Len(fProcessed) : fProcessed[j] # PlaceholderOf(fVariables[i].key)
    /\ (\A j \in 1..Len(fText) : fText[j] \notin Placeholders) => fProcessed = fText


\* C37: within a session, when executeAction returns for an action that is
\* not a screenshot, the last entry of the recorded log is the entry of that
\* action, recorded in this session, and its success flag is the success
\* field of the result returned: one entry per executed action, in order.
C37_OneEntryPerExecutedAction ==
  (ePc = "returned" /\ eAction.type # "screenshot") =>
    /\ recordedActions # <<>>
    /\ recordedActions[Len(recordedActions)] =
         [action |-> RecordedName(eAction), success |-> eResult, session |-> sessionId]
    /\ Len(recordedActions) = pushed[sessionId]


\* C39: whenever executeAction returns, the URL last passed to
\* setCurrentUrl is the URL of the page if it was when executeAction was
\* called: every step that moves the page, the redirection of a click to the
\* URL of a new tab included, refreshes the cached URL.
C39_CachedUrlFollowsPage ==
  (ePc = "returned" /\ eSynced) => clientUrl = pageUrl


\* C40 as stated: over one act invocation the number of onActMetrics
\* invocations equals the number of model calls act made, retries included.
C40_MetricsOncePerModelCall ==
  actPc \in {"returned", "threw"} => actMetrics = ActModelCalls

\* C40, amended: act invokes onActMetrics exactly once per model call that
\* returns a response, retries included and before the tool calls of the
\* response are inspected: the invocations number the responses received,
\* whatever act does with them, and the tokens reported sum to the tokens of
\* all responses; a model call that rejects ends act with no invocation for
\* it, and when act returns the invocations number the model calls.
C40_MetricsOncePerResponse ==
  /\ actMetrics = Len(actResponses)
  /\ actReported = actUsed
  /\ actPc = "returned" => actMetrics = ActModelCalls

\* three calls were made, none with a tool call, and three reports add up
\* to the tokens of the three responses
C40_Witness ==
  /\ actPc = "returned"
  /\ actRetries0 = 0
  /\ Len(actResponses) = 3
  /\ actMetrics = 3
  /\ actReported = [prompt |-> 2 * MaxTokens, completion |-> MaxTokens]

====
